---------------------------- MODULE Spec2Model ----------------------------
(***************************************************************************)
(* Lightcycle arena game: the state reducer (GameContext), the fixed-step  *)
(* game loop (GameLoop), the collision system and the grid motion math.    *)
(*                                                                         *)
(* Numbers are fixed-point integers:                                       *)
(*   lengths  in 1/1000 world unit   (CYCLE_RADIUS 0.4  -> 400)            *)
(*   times    in 1/3 millisecond     (PHYSICS_TIMESTEP 1000/60 ms -> 50)   *)
(*   angles   in 1/1500 radian       (TURN_SPEED * dt = 4/60 rad -> 100,   *)
(*                                    PI/2 -> 2356, PI -> 4712)            *)
(* The cardinal angles 0, +-PI/2, +-PI are closed under the reducer's      *)
(* normalizeAngle(angle +- PI/2) in IEEE doubles, so the integer angles    *)
(* model them exactly.                                                     *)
(***************************************************************************)
EXTENDS Integers, Sequences, FiniteSets, TLC

VARIABLES
    state,             \* GameState held by the reducer (what getState() returns)
    loop,              \* GameLoop private fields
    cycleObjects,      \* GameLoop.cycleObjects : id -> CycleObjects
    lastDecisionTime,  \* AIController.lastDecisionTime : id -> physics time
    restartTimer,      \* the pending auto-restart setTimeout, if any
    hist,              \* history of the last step (observation only)
    probe              \* input and result of a pure-function application

vars == <<state, loop, cycleObjects, lastDecisionTime, restartTimer, hist, probe>>

-----------------------------------------------------------------------------
(* Program constants (scaled as described above).                          *)

ARENA_HALF == 64000
CYCLE_RADIUS == 400
TRAIL_WIDTH == 150
BASE_SPEED == 12
SPAWN_INSET == 10000
SPAWN_MARGIN == 15000
SPAWN_VARIANCE == 20000
PHYSICS_TIMESTEP == 50
MAX_DELTA == 750
COUNTDOWN_TICK == 3000
COUNTDOWN_START == 3
AUTO_RESTART_DELAY == 6000
JUMP_HEIGHT == 4000
JUMP_DURATION == 2700
JUMP_COOLDOWN == 2400
AIR_THRESHOLD == 500
DECISION_INTERVAL == 180
TURN_STEP == 100
TURN_THRESHOLD == 15
HALF_PI == 2356
NO_TARGET == -1500
ATTACH_OFFSET == 1000

PI == 2 * HALF_PI
TWO_PI == 4 * HALF_PI

Ids == <<"player", "ai-1", "ai-2", "ai-3">>
IdSet == {Ids[i] : i \in 1..Len(Ids)}
Directions == {"north", "east", "south", "west"}
NoWinner == "null"

-----------------------------------------------------------------------------
(* Bounds of the model.                                                    *)

MaxFrames == 3
MaxCommands == 1
MaxScore == 2

-----------------------------------------------------------------------------
(* Arithmetic helpers.                                                     *)

Abs(n) == IF n < 0 THEN -n ELSE n
Min(a, b) == IF a <= b THEN a ELSE b
Max(a, b) == IF a >= b THEN a ELSE b
\* n / d rounded to the nearest integer, d > 0
RDiv(n, d) == IF n >= 0 THEN (2 * n + d) \div (2 * d) ELSE -((2 * (-n) + d) \div (2 * d))

RECURSIVE normalizeAngle(_)
normalizeAngle(a) ==
    IF a > PI THEN normalizeAngle(a - TWO_PI)
    ELSE IF a < -PI THEN normalizeAngle(a + TWO_PI)
    ELSE a

\* Math.sin in 1/1000, for an angle in [0, PI] (Bhaskara's rational form:
\* exact at 0, PI/2 and PI).
SinUpper(x) ==
    LET num == 4 * x * (PI - x)
        den == 5 * PI * PI - num
    IN  RDiv((num \div 100) * 4000, den \div 100)

RECURSIVE SinMilli(_)
SinMilli(a) ==
    IF a < 0 THEN -SinMilli(-a)
    ELSE IF a > PI THEN -SinMilli(a - PI)
    ELSE SinUpper(a)

CosMilli(a) == SinMilli(a + HALF_PI)

-----------------------------------------------------------------------------
(* constants.ts                                                            *)

DIRECTION_TO_ANGLE(d) ==
    CASE d = "north" -> 0
      [] d = "east"  -> HALF_PI
      [] d = "south" -> PI
      [] d = "west"  -> -HALF_PI

TURN_LEFT(d) ==
    CASE d = "north" -> "west"
      [] d = "west"  -> "south"
      [] d = "south" -> "east"
      [] d = "east"  -> "north"

TURN_RIGHT(d) ==
    CASE d = "north" -> "east"
      [] d = "east"  -> "south"
      [] d = "south" -> "west"
      [] d = "west"  -> "north"

BASE_SPAWN_CONFIGS ==
    << [position |-> [x |-> 0, z |-> ARENA_HALF - SPAWN_INSET], direction |-> "north"],
       [position |-> [x |-> 0, z |-> -ARENA_HALF + SPAWN_INSET], direction |-> "south"],
       [position |-> [x |-> -ARENA_HALF + SPAWN_INSET, z |-> 0], direction |-> "east"],
       [position |-> [x |-> ARENA_HALF - SPAWN_INSET, z |-> 0], direction |-> "west"] >>

Clamp(lo, hi, v) == Max(lo, Min(hi, v))

\* perm: the order Array.sort leaves the base configs in; variance: the four
\* draws of (Math.random() - 0.5) * 40.
generateSpawnPositions(perm, variance) ==
    [i \in 1..4 |->
        LET spawn == BASE_SPAWN_CONFIGS[perm[i]]
            ns == spawn.direction \in {"north", "south"}
            newX == spawn.position.x + (IF ns THEN variance[i] ELSE 0)
            newZ == spawn.position.z + (IF ns THEN 0 ELSE variance[i])
        IN  [position |->
                [x |-> Clamp(-ARENA_HALF + SPAWN_MARGIN, ARENA_HALF - SPAWN_MARGIN, newX),
                 z |-> Clamp(-ARENA_HALF + SPAWN_MARGIN, ARENA_HALF - SPAWN_MARGIN, newZ)],
             direction |-> spawn.direction]]

-----------------------------------------------------------------------------
(* GridSystem                                                              *)

calculateMovement(deltaTime, speedMultiplier) ==
    (BASE_SPEED * 1000 * speedMultiplier * deltaTime) \div 3000

DIRECTION_VECTORS(direction) ==
    CASE direction = "north" -> [x |-> 0, z |-> -1]
      [] direction = "south" -> [x |-> 0, z |-> 1]
      [] direction = "east"  -> [x |-> 1, z |-> 0]
      [] direction = "west"  -> [x |-> -1, z |-> 0]

moveForward(position, direction, distance) ==
    [x |-> position.x + DIRECTION_VECTORS(direction).x * distance,
     z |-> position.z + DIRECTION_VECTORS(direction).z * distance]

\* moveForwardAngle with z growing towards angle 0
moveForwardAngleZUp(position, angle, distance) ==
    [x |-> position.x + RDiv(SinMilli(angle) * distance, 1000),
     z |-> position.z + RDiv(CosMilli(angle) * distance, 1000)]

moveForwardAngle(position, angle, distance) ==
    [x |-> position.x + RDiv(SinMilli(angle) * distance, 1000),
     z |-> position.z - RDiv(CosMilli(angle) * distance, 1000)]

-----------------------------------------------------------------------------
(* LightcycleModel.calculateJumpY                                          *)

calculateJumpY(jumpStartTime, currentTime) ==
    LET elapsed == currentTime - jumpStartTime
        \* arc = 4 * t * (1 - t), t = elapsed / JUMP_DURATION, in 1/1000
        arc == (4 * elapsed * (JUMP_DURATION - elapsed))
                   \div ((JUMP_DURATION * JUMP_DURATION) \div 1000)
    IN  IF elapsed >= JUMP_DURATION THEN 0
        ELSE (arc * JUMP_HEIGHT) \div 1000

-----------------------------------------------------------------------------
(* CollisionSystem                                                         *)

checkWallCollision(position) ==
    LET margin == CYCLE_RADIUS
        limit == ARENA_HALF - margin
    IN  \/ position.x < -limit
        \/ position.x > limit
        \/ position.z < -limit
        \/ position.z > limit

pointIntersectsSegment(point, segment) ==
    LET halfWidth == TRAIL_WIDTH \div 2 + CYCLE_RADIUS
        minX == Min(segment.start.x, segment.end.x) - halfWidth
        maxX == Max(segment.start.x, segment.end.x) + halfWidth
        minZ == Min(segment.start.z, segment.end.z) - halfWidth
        maxZ == Max(segment.start.z, segment.end.z) + halfWidth
    IN  /\ point.x >= minX
        /\ point.x <= maxX
        /\ point.z >= minZ
        /\ point.z <= maxZ

\* segmentsToCheck leaving out the last three segments of the own trail
segmentsToCheckSkipThree(trail, isSelf) ==
    IF isSelf THEN SubSeq(trail, 1, Max(0, Len(trail) - 3)) ELSE trail

\* trail.slice(0, Math.max(0, trail.length - 2)) for the own trail
segmentsToCheck(trail, isSelf) ==
    IF isSelf THEN SubSeq(trail, 1, Max(0, Len(trail) - 2)) ELSE trail

checkTrailCollision(position, trail, isSelf) ==
    \E k \in 1..Len(segmentsToCheck(trail, isSelf)) :
        pointIntersectsSegment(position, segmentsToCheck(trail, isSelf)[k])

\* dx*dx + dz*dz < (2*CYCLE_RADIUS)^2; the early test keeps the squares
\* inside 32 bits and does not change the result.
checkCycleCollision(a, b) ==
    LET dx == a.x - b.x
        dz == a.z - b.z
        minDistance == CYCLE_RADIUS * 2
    IN  /\ Abs(dx) < minDistance
        /\ Abs(dz) < minDistance
        /\ dx * dx + dz * dz < minDistance * minDistance

NoCollision == [collided |-> FALSE, type |-> "null", cycleId |-> "null"]

\* second loop of checkCollision, from index i on
RECURSIVE cycleLoop(_, _, _, _)
cycleLoop(position, cycleId, allCycles, i) ==
    IF i > Len(allCycles) THEN NoCollision
    ELSE LET cycle == allCycles[i]
         IN  IF cycle.id = cycleId \/ ~cycle.isAlive
             THEN cycleLoop(position, cycleId, allCycles, i + 1)
             ELSE IF checkCycleCollision(position, cycle.gridPosition)
             THEN [collided |-> TRUE, type |-> "cycle", cycleId |-> cycle.id]
             ELSE cycleLoop(position, cycleId, allCycles, i + 1)

\* first loop of checkCollision, from index i on
RECURSIVE trailLoop(_, _, _, _)
trailLoop(position, cycleId, allCycles, i) ==
    IF i > Len(allCycles) THEN cycleLoop(position, cycleId, allCycles, 1)
    ELSE LET cycle == allCycles[i]
         IN  IF ~cycle.isAlive
             THEN trailLoop(position, cycleId, allCycles, i + 1)
             ELSE IF checkTrailCollision(position, cycle.trail, cycleId = cycle.id)
             THEN [collided |-> TRUE, type |-> "trail", cycleId |-> cycle.id]
             ELSE trailLoop(position, cycleId, allCycles, i + 1)

\* checkCollision looking at the trails before the wall
checkCollisionTrailFirst(position, cycleId, allCycles) ==
    LET hit == trailLoop(position, cycleId, allCycles, 1)
    IN  IF hit.collided /\ hit.type = "trail" THEN hit
        ELSE IF checkWallCollision(position)
        THEN [collided |-> TRUE, type |-> "wall", cycleId |-> "null"]
        ELSE hit

checkCollision(position, cycleId, allCycles) ==
    IF checkWallCollision(position)
    THEN [collided |-> TRUE, type |-> "wall", cycleId |-> "null"]
    ELSE trailLoop(position, cycleId, allCycles, 1)

\* Infinity of raycast and raycastWall: above every distance of the arena
INFINITY == 1000000000
RAY_STEP == 500

\* direction is a vector of DIRECTION_VECTORS: the divisions are by 1 or -1
raycastWall(position, direction) ==
    LET margin == CYCLE_RADIUS
        distX == IF direction.x > 0
                 THEN Min(INFINITY, (ARENA_HALF - margin - position.x) \div direction.x)
                 ELSE IF direction.x < 0
                 THEN Min(INFINITY, (-ARENA_HALF + margin - position.x) \div direction.x)
                 ELSE INFINITY
    IN  IF direction.z > 0
        THEN Min(distX, (ARENA_HALF - margin - position.z) \div direction.z)
        ELSE IF direction.z < 0
        THEN Min(distX, (-ARENA_HALF + margin - position.z) \div direction.z)
        ELSE distX

\* the body of raycast's loop over allCycles at one sample, from index i on:
\* the type of the first hit at this sample, "null" when there is none
RECURSIVE raySample(_, _, _, _)
raySample(testPos, allCycles, selfId, i) ==
    IF i > Len(allCycles) THEN "null"
    ELSE LET cycle == allCycles[i]
             trail == IF cycle.id = selfId
                      THEN SubSeq(cycle.trail, 1, Max(0, Len(cycle.trail) - 3))
                      ELSE cycle.trail
             dx == testPos.x - cycle.gridPosition.x
             dz == testPos.z - cycle.gridPosition.z
         IN  IF ~cycle.isAlive THEN raySample(testPos, allCycles, selfId, i + 1)
             ELSE IF \E k \in 1..Len(trail) : pointIntersectsSegment(testPos, trail[k])
             THEN "trail"
             ELSE IF /\ cycle.id # selfId
                     /\ Abs(dx) < 2 * CYCLE_RADIUS
                     /\ Abs(dz) < 2 * CYCLE_RADIUS
                     /\ dx * dx + dz * dz < CYCLE_RADIUS * CYCLE_RADIUS * 4
             THEN "cycle"
             ELSE raySample(testPos, allCycles, selfId, i + 1)

\* `if (d < minHitDistance) { minHitDistance = d; hitType = ... }`: a hit
\* found nearer stands, what was known farther away counts only without one
nearestHit(near, far) == IF near.hitType # "null" THEN near ELSE far

\* raycast's loop `for (let d = 0.5; d <= maxDistance && d < minHitDistance;
\* d += 0.5)` over the samples d = lo * RAY_STEP .. hi * RAY_STEP, none of
\* which reaches the wall: the first sample that hits ends the loop, as the
\* next d is not below minHitDistance any more. The range is searched by
\* halves, the lower half first
RECURSIVE rayLoop(_, _, _, _, _, _)
rayLoop(position, direction, allCycles, selfId, lo, hi) ==
    IF lo > hi
    THEN [minHitDistance |-> INFINITY, hitType |-> "null"]
    ELSE IF lo = hi
    THEN [minHitDistance |-> lo * RAY_STEP,
          hitType |-> raySample([x |-> position.x + direction.x * lo * RAY_STEP,
                                 z |-> position.z + direction.z * lo * RAY_STEP],
                                allCycles, selfId, 1)]
    ELSE nearestHit(rayLoop(position, direction, allCycles, selfId,
                            lo, (lo + hi) \div 2),
                    rayLoop(position, direction, allCycles, selfId,
                            (lo + hi) \div 2 + 1, hi))

\* raycast up to its return: minHitDistance and hitType after the wall
\* check and the loop; the loop runs while d <= maxDistance and d < wallDist
raycastFound(position, direction, maxDistance, allCycles, selfId) ==
    LET wallDist == raycastWall(position, direction)
    IN  nearestHit(
            rayLoop(position, direction, allCycles, selfId, 1,
                    Min(maxDistance \div RAY_STEP, (wallDist - 1) \div RAY_STEP)),
            [minHitDistance |-> wallDist,
             hitType |-> IF wallDist < INFINITY THEN "wall" ELSE "null"])

\* raycast returning minHitDistance without the clamp to maxDistance
raycastUnclamped(position, direction, maxDistance, allCycles, selfId) ==
    LET result(found) == [distance |-> found.minHitDistance, type |-> found.hitType]
    IN  result(raycastFound(position, direction, maxDistance, allCycles, selfId))

raycast(position, direction, maxDistance, allCycles, selfId) ==
    LET result(found) ==
            [distance |-> Min(found.minHitDistance, maxDistance), type |-> found.hitType]
    IN  result(raycastFound(position, direction, maxDistance, allCycles, selfId))

-----------------------------------------------------------------------------
(* GameContext: initial state factory                                      *)

\* spawnPositions: the result of generateSpawnPositions()
createInitialCycles(spawnPositions) ==
    [index \in 1..4 |->
        [id            |-> Ids[index],
         gridPosition  |-> spawnPositions[index].position,
         direction     |-> spawnPositions[index].direction,
         angle         |-> DIRECTION_TO_ANGLE(spawnPositions[index].direction),
         targetAngle   |-> NO_TARGET,
         isTurning     |-> FALSE,
         isAlive       |-> TRUE,
         trail         |-> << >>,
         isPlayer      |-> index = 1,
         speed         |-> 1,
         trailActive   |-> FALSE,
         isJumping     |-> FALSE,
         jumpStartTime |-> 0,
         lastJumpTime  |-> 0]]

createInitialState(spawnPositions) ==
    [phase      |-> "countdown",
     cycles     |-> createInitialCycles(spawnPositions),
     cameraMode |-> "thirdPerson",
     countdown  |-> COUNTDOWN_START,
     winner     |-> NoWinner,
     round      |-> 1,
     scores     |-> [id \in IdSet |-> 0],
     isNPCMode  |-> TRUE]

-----------------------------------------------------------------------------
(* GameContext: gameReducer, one operator per case.  An action is a record *)
(* with a type; RESTART_GAME and START_GAME also carry the spawn positions *)
(* their call of generateSpawnPositions() draws, END_JUMP the value its    *)
(* call of performance.now() returns.                                      *)

\* state.cycles.map(f) where f changes only the cycle named cycleId
\* (mapped[i] is what f makes of cycle i)
MapCycle(s, cycleId, mapped) ==
    [s EXCEPT !.cycles =
        [i \in 1..Len(s.cycles) |->
            IF s.cycles[i].id # cycleId THEN s.cycles[i] ELSE mapped[i]]]

ReduceStartGame(s, action) ==
    [s EXCEPT !.phase = "countdown",
              !.countdown = COUNTDOWN_START,
              !.cycles = createInitialCycles(action.spawn),
              !.winner = NoWinner]

ReducePauseGame(s) ==
    IF s.phase = "playing" THEN [s EXCEPT !.phase = "paused"] ELSE s

ReduceResumeGame(s) ==
    IF s.phase = "paused" THEN [s EXCEPT !.phase = "playing"] ELSE s

\* RESTART_GAME skipping the countdown
ReduceRestartGameToPlaying(s, action) ==
    [createInitialState(action.spawn) EXCEPT !.scores = s.scores, !.round = s.round,
                                             !.phase = "playing"]

ReduceRestartGame(s, action) ==
    [createInitialState(action.spawn) EXCEPT !.scores = s.scores, !.round = s.round]

\* START_TURN that also commits the destination direction
StartTurnCycleRedirect(cycle, action) ==
    IF ~cycle.isAlive \/ cycle.isTurning THEN cycle
    ELSE LET turnAmount == IF action.direction = "left" THEN -HALF_PI ELSE HALF_PI
             targetAngle == normalizeAngle(cycle.angle + turnAmount)
         IN  [cycle EXCEPT !.isTurning = TRUE,
                           !.targetAngle = targetAngle,
                           !.trailActive = TRUE,
                           !.direction = IF action.direction = "left"
                                         THEN TURN_LEFT(cycle.direction)
                                         ELSE TURN_RIGHT(cycle.direction)]

StartTurnCycle(cycle, action) ==
    IF ~cycle.isAlive \/ cycle.isTurning THEN cycle
    ELSE LET turnAmount == IF action.direction = "left" THEN -HALF_PI ELSE HALF_PI
             targetAngle == normalizeAngle(cycle.angle + turnAmount)
         IN  [cycle EXCEPT !.isTurning = TRUE,
                           !.targetAngle = targetAngle,
                           !.trailActive = TRUE]

ReduceStartTurn(s, action) ==
    LET F(cycle) == StartTurnCycle(cycle, action)
    IN  MapCycle(s, action.cycleId, [i \in 1..Len(s.cycles) |-> F(s.cycles[i])])

ReduceUpdateAngle(s, action) ==
    LET F(cycle) == [cycle EXCEPT !.angle = action.angle]
    IN  MapCycle(s, action.cycleId, [i \in 1..Len(s.cycles) |-> F(s.cycles[i])])

EndTurnCycle(cycle) ==
    LET newDirection ==
            IF cycle.targetAngle = 0 THEN "north"
            ELSE IF cycle.targetAngle = HALF_PI THEN "east"
            ELSE IF cycle.targetAngle = PI \/ cycle.targetAngle = -PI THEN "south"
            ELSE "west"
    IN  [cycle EXCEPT !.isTurning = FALSE,
                      !.targetAngle = NO_TARGET,
                      !.angle = IF cycle.targetAngle # NO_TARGET
                                THEN cycle.targetAngle ELSE cycle.angle,
                      !.direction = newDirection]

ReduceEndTurn(s, action) ==
    MapCycle(s, action.cycleId, [i \in 1..Len(s.cycles) |-> EndTurnCycle(s.cycles[i])])

ReduceUpdateCyclePosition(s, action) ==
    LET F(cycle) == [cycle EXCEPT !.gridPosition = [x |-> action.x, z |-> action.z]]
    IN  MapCycle(s, action.cycleId, [i \in 1..Len(s.cycles) |-> F(s.cycles[i])])

ReduceStartJump(s, action) ==
    LET F(cycle) == IF ~cycle.isAlive THEN cycle
                    ELSE [cycle EXCEPT !.isJumping = TRUE, !.jumpStartTime = action.time]
    IN  MapCycle(s, action.cycleId, [i \in 1..Len(s.cycles) |-> F(s.cycles[i])])

ReduceEndJump(s, action) ==
    LET F(cycle) == [cycle EXCEPT !.isJumping = FALSE, !.lastJumpTime = action.now]
    IN  MapCycle(s, action.cycleId, [i \in 1..Len(s.cycles) |-> F(s.cycles[i])])

\* updatedCycles.filter((c) => c.isAlive), as the sequence of their indices
RECURSIVE AliveFrom(_, _)
AliveFrom(cycles, i) ==
    IF i > Len(cycles) THEN << >>
    ELSE IF cycles[i].isAlive THEN <<i>> \o AliveFrom(cycles, i + 1)
    ELSE AliveFrom(cycles, i + 1)

\* KILL_CYCLE ending the round only when nobody is left
ReduceKillCycleNobodyLeft(s, action) ==
    LET updatedCycles ==
            [i \in 1..Len(s.cycles) |->
                IF s.cycles[i].id = action.cycleId
                THEN [s.cycles[i] EXCEPT !.isAlive = FALSE] ELSE s.cycles[i]]
        aliveCycles == AliveFrom(updatedCycles, 1)
    IN  IF Len(aliveCycles) < 1
        THEN [s EXCEPT !.cycles = updatedCycles,
                       !.phase = "gameOver",
                       !.winner = NoWinner]
        ELSE [s EXCEPT !.cycles = updatedCycles]

ReduceKillCycle(s, action) ==
    LET updatedCycles ==
            [i \in 1..Len(s.cycles) |->
                IF s.cycles[i].id = action.cycleId
                THEN [s.cycles[i] EXCEPT !.isAlive = FALSE] ELSE s.cycles[i]]
        aliveCycles == AliveFrom(updatedCycles, 1)
    IN  IF Len(aliveCycles) <= 1
        THEN LET winnerId == IF Len(aliveCycles) = 1
                             THEN updatedCycles[aliveCycles[1]].id ELSE NoWinner
                 newScores == IF winnerId # NoWinner /\ winnerId \in DOMAIN s.scores
                              THEN [s.scores EXCEPT ![winnerId] = @ + 1]
                              ELSE s.scores
             IN  [s EXCEPT !.cycles = updatedCycles,
                           !.phase = "gameOver",
                           !.winner = winnerId,
                           !.scores = newScores]
        ELSE [s EXCEPT !.cycles = updatedCycles]

ReduceAddTrailSegment(s, action) ==
    LET F(cycle) == [cycle EXCEPT !.trail = Append(cycle.trail, action.segment)]
    IN  MapCycle(s, action.cycleId, [i \in 1..Len(s.cycles) |-> F(s.cycles[i])])

CAMERA_MODES == <<"thirdPerson", "firstPerson", "topDown">>

ReduceToggleCamera(s) ==
    LET currentIndex == CHOOSE i \in 1..3 : CAMERA_MODES[i] = s.cameraMode
    IN  [s EXCEPT !.cameraMode = CAMERA_MODES[(currentIndex % 3) + 1]]

ReduceSetCamera(s, action) == [s EXCEPT !.cameraMode = action.mode]

\* DECREMENT_COUNTDOWN leaving the countdown when the counter reaches 0
ReduceDecrementCountdownAtZero(s) ==
    LET newCountdown == s.countdown - 1
    IN  IF newCountdown <= 0
        THEN [s EXCEPT !.phase = "playing", !.countdown = 0]
        ELSE [s EXCEPT !.countdown = newCountdown]

ReduceDecrementCountdown(s) ==
    LET newCountdown == s.countdown - 1
    IN  IF newCountdown < 0
        THEN [s EXCEPT !.phase = "playing", !.countdown = 0]
        ELSE [s EXCEPT !.countdown = newCountdown]

ReduceTakeControl(s) == [s EXCEPT !.isNPCMode = FALSE]

gameReducer(s, action) ==
    CASE action.type = "START_GAME"            -> ReduceStartGame(s, action)
      [] action.type = "PAUSE_GAME"            -> ReducePauseGame(s)
      [] action.type = "RESUME_GAME"           -> ReduceResumeGame(s)
      [] action.type = "RESTART_GAME"          -> ReduceRestartGame(s, action)
      [] action.type = "START_TURN"            -> ReduceStartTurn(s, action)
      [] action.type = "UPDATE_ANGLE"          -> ReduceUpdateAngle(s, action)
      [] action.type = "END_TURN"              -> ReduceEndTurn(s, action)
      [] action.type = "UPDATE_CYCLE_POSITION" -> ReduceUpdateCyclePosition(s, action)
      [] action.type = "START_JUMP"            -> ReduceStartJump(s, action)
      [] action.type = "END_JUMP"              -> ReduceEndJump(s, action)
      [] action.type = "KILL_CYCLE"            -> ReduceKillCycle(s, action)
      [] action.type = "ADD_TRAIL_SEGMENT"     -> ReduceAddTrailSegment(s, action)
      [] action.type = "TOGGLE_CAMERA"         -> ReduceToggleCamera(s)
      [] action.type = "SET_CAMERA"            -> ReduceSetCamera(s, action)
      [] action.type = "DECREMENT_COUNTDOWN"   -> ReduceDecrementCountdown(s)
      [] action.type = "TAKE_CONTROL"          -> ReduceTakeControl(s)
      [] OTHER                                 -> s

\* useReducer applies the actions dispatched by one callback in order
\* (folded by halves, the first half before the second)
RECURSIVE ApplyRange(_, _, _, _)
ApplyRange(s, actions, lo, hi) ==
    IF lo > hi THEN s
    ELSE IF lo = hi THEN gameReducer(s, actions[lo])
    ELSE LET mid == (lo + hi) \div 2
             first == ApplyRange(s, actions, lo, mid)
         IN  IF first.countdown >= 0 THEN ApplyRange(first, actions, mid + 1, hi)
             ELSE first

ApplyActions(s, actions) == ApplyRange(s, actions, 1, Len(actions))

-----------------------------------------------------------------------------
(* GameActions: the action creators the loop uses                          *)

restartGame(spawn) == [type |-> "RESTART_GAME", spawn |-> spawn]
startTurn(cycleId, direction) ==
    [type |-> "START_TURN", cycleId |-> cycleId, direction |-> direction]
updateAngle(cycleId, angle) ==
    [type |-> "UPDATE_ANGLE", cycleId |-> cycleId, angle |-> angle]
endTurn(cycleId) == [type |-> "END_TURN", cycleId |-> cycleId]
killCycle(cycleId) == [type |-> "KILL_CYCLE", cycleId |-> cycleId]
addTrailSegment(cycleId, segment) ==
    [type |-> "ADD_TRAIL_SEGMENT", cycleId |-> cycleId, segment |-> segment]
setCamera(mode) == [type |-> "SET_CAMERA", mode |-> mode]
updateCyclePosition(cycleId, x, z) ==
    [type |-> "UPDATE_CYCLE_POSITION", cycleId |-> cycleId, x |-> x, z |-> z]
startJump(cycleId, time) == [type |-> "START_JUMP", cycleId |-> cycleId, time |-> time]
endJump(cycleId, now) == [type |-> "END_JUMP", cycleId |-> cycleId, now |-> now]

-----------------------------------------------------------------------------
(* AIController.getDecision.  evaluateAllDirections and shouldJump read    *)
(* only the cycle and the snapshot of all cycles, which are the same in    *)
(* every tick of a frame, and Math.random; the model keeps the rate limit  *)
(* and leaves the scored outcome open: `choice` names the cycle (0: none)  *)
(* and the command the scoring would produce for it in this frame.         *)

NoChoice == [agent |-> 0, kind |-> "none"]

-----------------------------------------------------------------------------
(* AIController: the scoring and the decision.  Math.random and            *)
(* performance.now are inputs: rnd.emergency, rnd.strategic and rnd.coin   *)
(* are the outcomes of Math.random() < 0.4, < 0.2 and < 0.5, `now` is what *)
(* performance.now() returns.  Scores are in 1/1000.                        *)

LOOK_AHEAD_DISTANCE == 25000
MIN_TURN_DISTANCE == 4000

countEscapePaths(cycle, primaryDir, allCycles) ==
    LET vector == DIRECTION_VECTORS(primaryDir)
        futurePos == [x |-> cycle.gridPosition.x + vector.x * 8000,
                      z |-> cycle.gridPosition.z + vector.z * 8000]
    IN  Cardinality({dir \in Directions :
            raycast(futurePos, DIRECTION_VECTORS(dir), 15000, allCycles, cycle.id).distance
                >= 8000})

\* The distance from the point to the segment, rounded down. Committed
\* segments run along an axis, so the closest point is the point clamped to
\* the segment; at 3 or more in x or in z the larger of the two is returned,
\* a lower bound, as the caller compares the distance with 3 only.
distanceToSegment(point, segment) ==
    LET dx == Abs(point.x - Clamp(Min(segment.start.x, segment.end.x),
                                  Max(segment.start.x, segment.end.x), point.x))
        dz == Abs(point.z - Clamp(Min(segment.start.z, segment.end.z),
                                  Max(segment.start.z, segment.end.z), point.z))
    IN  IF dx = 0 THEN dz
        ELSE IF dz = 0 THEN dx
        ELSE IF dx >= 3000 \/ dz >= 3000 THEN Max(dx, dz)
        ELSE CHOOSE r \in 0..4243 : r * r <= dx * dx + dz * dz
                                    /\ dx * dx + dz * dz < (r + 1) * (r + 1)

\* evaluateSelfTrailDanger's loop over oldTrail for one checkPos: the sum
\* of the penalties of the segments i.. of oldTrail
RECURSIVE oldTrailDanger(_, _, _)
oldTrailDanger(checkPos, oldTrail, i) ==
    IF i > Len(oldTrail) THEN 0
    ELSE (IF distanceToSegment(checkPos, oldTrail[i]) < 3000
          THEN -(10000 - distanceToSegment(checkPos, oldTrail[i]) * 2)
          ELSE 0)
         + oldTrailDanger(checkPos, oldTrail, i + 1)

evaluateSelfTrailDanger(cycle, direction, allCycles) ==
    IF Len(cycle.trail) < 3 THEN 0
    ELSE LET vector == DIRECTION_VECTORS(direction)
             oldTrail == SubSeq(cycle.trail, 1, Max(0, Len(cycle.trail) - 4))
             ahead(dist) ==
                 oldTrailDanger([x |-> cycle.gridPosition.x + vector.x * dist,
                                 z |-> cycle.gridPosition.z + vector.z * dist],
                                oldTrail, 1)
             penalty(sideHit) ==
                 IF sideHit.distance < 5000 /\ sideHit.type = "trail" THEN -5000 ELSE 0
             side(sideDir) ==
                 penalty(raycast(cycle.gridPosition, DIRECTION_VECTORS(sideDir),
                                 10000, allCycles, cycle.id))
         IN  ahead(5000) + ahead(10000) + ahead(15000) + ahead(20000)
             + side(TURN_LEFT(direction)) + side(TURN_RIGHT(direction))

scoreDirection(cycle, allCycles, dir, turn) ==
    LET score(forwardHit, escapePaths, selfTrailDanger) ==
            [direction |-> dir, turn |-> turn,
             forwardDistance |-> forwardHit.distance,
             escapePaths |-> escapePaths,
             selfTrailDanger |-> selfTrailDanger,
             totalScore |-> forwardHit.distance * 2 + escapePaths * 8000
                            + selfTrailDanger]
    IN  score(raycast(cycle.gridPosition, DIRECTION_VECTORS(dir),
                      LOOK_AHEAD_DISTANCE * 2, allCycles, cycle.id),
              countEscapePaths(cycle, dir, allCycles),
              evaluateSelfTrailDanger(cycle, dir, allCycles))

evaluateAllDirections(cycle, allCycles) ==
    << scoreDirection(cycle, allCycles, cycle.direction, "none"),
       scoreDirection(cycle, allCycles, TURN_LEFT(cycle.direction), "left"),
       scoreDirection(cycle, allCycles, TURN_RIGHT(cycle.direction), "right") >>

\* the sort in ascending order
sortScoresAscending(scores) ==
    LET before(j, k) == \/ scores[j].totalScore < scores[k].totalScore
                        \/ scores[j].totalScore = scores[k].totalScore /\ j < k
        rank(k) == 1 + Cardinality({j \in 1..Len(scores) : before(j, k)})
    IN  [r \in 1..Len(scores) |-> scores[CHOOSE k \in 1..Len(scores) : rank(k) = r]]

\* scores.sort((a, b) => b.totalScore - a.totalScore): descending and stable
sortScores(scores) ==
    LET before(j, k) == \/ scores[j].totalScore > scores[k].totalScore
                        \/ scores[j].totalScore = scores[k].totalScore /\ j < k
        rank(k) == 1 + Cardinality({j \in 1..Len(scores) : before(j, k)})
    IN  [r \in 1..Len(scores) |-> scores[CHOOSE k \in 1..Len(scores) : rank(k) = r]]

\* scores.filter(keep), keep given as the set of kept indices
RECURSIVE filterScores(_, _, _)
filterScores(scores, kept, i) ==
    IF i > Len(scores) THEN << >>
    ELSE IF i \in kept THEN <<scores[i]>> \o filterScores(scores, kept, i + 1)
    ELSE filterScores(scores, kept, i + 1)

shouldJump(cycle, allCycles, forwardDistance, now, rnd) ==
    IF cycle.isJumping THEN FALSE
    ELSE IF now - cycle.lastJumpTime < 6000 THEN FALSE
    ELSE LET jumpable(hit) ==
                 hit.type = "trail" /\ hit.distance > 3000 /\ hit.distance < 10000
         IN  IF /\ forwardDistance > 3000 /\ forwardDistance < 12000
                /\ jumpable(raycast(cycle.gridPosition,
                                    DIRECTION_VECTORS(cycle.direction),
                                    12000, allCycles, cycle.id))
             THEN TRUE
             ELSE IF forwardDistance < 4000 THEN rnd.emergency
             ELSE FALSE

\* getDecision with the scoring: the decision and the decision time of the
\* cycle afterwards (urgency, which nothing reads, is left out)
getDecisionScored(cycle, allCycles, currentTime, lastDecision, now, rnd) ==
    LET none == [turn |-> "none", jump |-> FALSE, lastDecisionTime |-> lastDecision]
        turnTo(turn) == [turn |-> turn, jump |-> FALSE, lastDecisionTime |-> currentTime]
        jumpNow == [turn |-> "none", jump |-> TRUE, lastDecisionTime |-> currentTime]
        \* from `const bestOption = scores[0]` on: unsorted is what
        \* evaluateAllDirections returned, scores the array after the sort,
        \* jumps the result of shouldJump
        decide(unsorted, scores, jumps) ==
            LET bestOption == scores[1]
                forwardOption == unsorted[1]
                turnOptions ==
                    filterScores(scores, {k \in 1..3 : scores[k].turn # "none"}, 1)
                scoreDiff == bestOption.totalScore - forwardOption.totalScore
                betterOptions ==
                    filterScores(scores,
                                 {k \in 1..3 : /\ scores[k].turn # "none"
                                               /\ scores[k].escapePaths
                                                     > forwardOption.escapePaths}, 1)
            IN  IF forwardOption.forwardDistance < MIN_TURN_DISTANCE
                THEN IF jumps /\ ~cycle.isJumping THEN jumpNow
                     ELSE IF Len(turnOptions) > 0 THEN turnTo(turnOptions[1].turn)
                     ELSE turnTo(IF rnd.coin THEN "left" ELSE "right")
                ELSE IF bestOption.turn # "none" /\ scoreDiff > 8000
                THEN turnTo(bestOption.turn)
                ELSE IF /\ forwardOption.escapePaths < 2
                        /\ forwardOption.forwardDistance < 20000
                        /\ Len(betterOptions) > 0
                THEN turnTo(betterOptions[1].turn)
                ELSE IF /\ 2 * forwardOption.forwardDistance < LOOK_AHEAD_DISTANCE
                        /\ bestOption.turn # "none" /\ scoreDiff > 3000
                THEN turnTo(bestOption.turn)
                ELSE IF jumps /\ ~cycle.isJumping /\ rnd.strategic THEN jumpNow
                ELSE none
        evaluated(unsorted) ==
            decide(unsorted, sortScores(unsorted),
                   shouldJump(cycle, allCycles, unsorted[1].forwardDistance, now, rnd))
    IN  IF currentTime - lastDecision < DECISION_INTERVAL THEN none
        ELSE evaluated(evaluateAllDirections(cycle, allCycles))

\* getDecision without the rate limit
getDecisionUnthrottled(cycle, index, currentTime, lastDecision, choice) ==
    IF choice.agent # index
    THEN [turn |-> "none", jump |-> FALSE, decided |-> FALSE]
    ELSE IF choice.kind = "jump"
    THEN IF cycle.isJumping
         THEN [turn |-> "none", jump |-> FALSE, decided |-> FALSE]
         ELSE [turn |-> "none", jump |-> TRUE, decided |-> TRUE]
    ELSE [turn |-> choice.kind, jump |-> FALSE, decided |-> TRUE]

getDecision(cycle, index, currentTime, lastDecision, choice) ==
    IF currentTime - lastDecision[cycle.id] < DECISION_INTERVAL
    THEN [turn |-> "none", jump |-> FALSE, decided |-> FALSE]
    ELSE IF choice.agent # index
    THEN [turn |-> "none", jump |-> FALSE, decided |-> FALSE]
    ELSE IF choice.kind = "jump"
    THEN IF cycle.isJumping
         THEN [turn |-> "none", jump |-> FALSE, decided |-> FALSE]
         ELSE [turn |-> "none", jump |-> TRUE, decided |-> TRUE]
    ELSE [turn |-> choice.kind, jump |-> FALSE, decided |-> TRUE]

-----------------------------------------------------------------------------
(* GameLoop                                                                *)

getTrailAttachPoint(position, angle) ==
    [x |-> position.x - RDiv(SinMilli(angle) * ATTACH_OFFSET, 1000),
     z |-> position.z + RDiv(CosMilli(angle) * ATTACH_OFFSET, 1000)]

\* cycleObjects after initializeCycles(cycles)
initializeCycles(cycles) ==
    [id \in IdSet |->
        LET cycle == cycles[CHOOSE i \in 1..Len(cycles) : cycles[i].id = id]
        IN  [lastTurnPosition |-> getTrailAttachPoint(cycle.gridPosition, cycle.angle)]]

\* A handler's effects so far: the actions it dispatched, and the loop's own
\* maps, which it writes at once.
Effects(acts, ai, objs) == [acts |-> acts, ai |-> ai, objs |-> objs]

\* handleTurn(cycleId, direction, state)
handleTurn(fx, cycleId, direction, s) ==
    LET found == {i \in 1..Len(s.cycles) : s.cycles[i].id = cycleId}
    IN  IF found = {} THEN fx
        ELSE LET cycle == s.cycles[CHOOSE i \in found : TRUE]
                 cornerPoint == getTrailAttachPoint(cycle.gridPosition, cycle.angle)
                 segment == [start     |-> fx.objs[cycleId].lastTurnPosition,
                             end       |-> cornerPoint,
                             direction |-> cycle.direction]
             IN  IF ~cycle.isAlive \/ cycle.isTurning THEN fx
                 ELSE Effects(
                        fx.acts \o <<addTrailSegment(cycleId, segment),
                                     startTurn(cycleId, direction)>>,
                        fx.ai,
                        [fx.objs EXCEPT ![cycleId].lastTurnPosition = cornerPoint])

\* handleJump(cycleId, currentTime); s is what getState() returns
handleJump(fx, cycleId, currentTime, s) ==
    LET found == {i \in 1..Len(s.cycles) : s.cycles[i].id = cycleId}
    IN  IF found = {} THEN fx
        ELSE LET cycle == s.cycles[CHOOSE i \in found : TRUE]
             IN  IF ~cycle.isAlive \/ cycle.isJumping THEN fx
                 ELSE IF currentTime - cycle.lastJumpTime < JUMP_COOLDOWN THEN fx
                 ELSE Effects(Append(fx.acts, startJump(cycleId, currentTime)),
                              fx.ai, fx.objs)

\* physicsUpdate: the jump-end test of one cycle
TickJumpEnd(fx, cycle, currentTime) ==
    IF cycle.isJumping /\ currentTime - cycle.jumpStartTime >= JUMP_DURATION
    THEN Effects(Append(fx.acts, endJump(cycle.id, currentTime)), fx.ai, fx.objs)
    ELSE fx

\* physicsUpdate: curved turning of one cycle
TickTurn(fx, cycle, dt) ==
    IF cycle.isTurning /\ cycle.targetAngle # NO_TARGET
    THEN LET turnAmount == (TURN_STEP * dt) \div PHYSICS_TIMESTEP
             angleDiff == normalizeAngle(cycle.targetAngle - cycle.angle)
             turnDir == IF angleDiff > 0 THEN 1 ELSE -1
             newAngle == normalizeAngle(
                            cycle.angle + turnDir * Min(turnAmount, Abs(angleDiff)))
         IN  IF Abs(angleDiff) <= TURN_THRESHOLD
             THEN Effects(Append(fx.acts, endTurn(cycle.id)), fx.ai, fx.objs)
             ELSE Effects(Append(fx.acts, updateAngle(cycle.id, newAngle)), fx.ai, fx.objs)
    ELSE fx

\* the AI decision of physicsUpdate taken for every cycle, the player's
\* included whatever isNPCMode is
TickAIEveryCycle(fx, cycle, index, s, currentTime, physicsTime, choice) ==
    LET decision == getDecision(cycle, index, physicsTime, fx.ai, choice)
        fx1 == IF decision.decided
               THEN Effects(fx.acts, [fx.ai EXCEPT ![cycle.id] = physicsTime], fx.objs)
               ELSE fx
        fx2 == IF decision.turn # "none" /\ ~cycle.isTurning
               THEN handleTurn(fx1, cycle.id, decision.turn, s)
               ELSE fx1
    IN  IF decision.jump /\ ~cycle.isJumping
        THEN handleJump(fx2, cycle.id, currentTime, s)
        ELSE fx2

\* physicsUpdate: the AI decision of one cycle
TickAI(fx, cycle, index, s, currentTime, physicsTime, choice) ==
    IF ~cycle.isPlayer \/ s.isNPCMode
    THEN LET decision == getDecision(cycle, index, physicsTime, fx.ai, choice)
             fx1 == IF decision.decided
                    THEN Effects(fx.acts, [fx.ai EXCEPT ![cycle.id] = physicsTime], fx.objs)
                    ELSE fx
             fx2 == IF decision.turn # "none" /\ ~cycle.isTurning
                    THEN handleTurn(fx1, cycle.id, decision.turn, s)
                    ELSE fx1
         IN  IF decision.jump /\ ~cycle.isJumping
             THEN handleJump(fx2, cycle.id, currentTime, s)
             ELSE fx2
    ELSE fx

\* TickMove dispatching the position update before the collision test
TickMoveCommitsFirst(fx, cycle, s, dt, currentTime) ==
    LET movement == calculateMovement(dt, cycle.speed)
        newPosition == moveForwardAngle(cycle.gridPosition, cycle.angle, movement)
        isInAir == /\ cycle.isJumping
                   /\ calculateJumpY(cycle.jumpStartTime, currentTime) > AIR_THRESHOLD
        collision == checkCollision(newPosition, cycle.id, s.cycles)
        moved == Append(fx.acts,
                        updateCyclePosition(cycle.id, newPosition.x, newPosition.z))
    IN  IF ~isInAir /\ collision.collided
        THEN Effects(moved \o <<killCycle(cycle.id)>>
                           \o (IF cycle.isPlayer THEN <<setCamera("topDown")>> ELSE << >>),
                     fx.ai, fx.objs)
        ELSE Effects(moved, fx.ai, fx.objs)

\* physicsUpdate: move one cycle, test the new position, kill or commit
TickMove(fx, cycle, s, dt, currentTime) ==
    LET movement == calculateMovement(dt, cycle.speed)
        newPosition == moveForwardAngle(cycle.gridPosition, cycle.angle, movement)
        isInAir == /\ cycle.isJumping
                   /\ calculateJumpY(cycle.jumpStartTime, currentTime) > AIR_THRESHOLD
        collision == checkCollision(newPosition, cycle.id, s.cycles)
    IN  IF ~isInAir /\ collision.collided
        THEN Effects(fx.acts \o <<killCycle(cycle.id)>>
                             \o (IF cycle.isPlayer THEN <<setCamera("topDown")>> ELSE << >>),
                     fx.ai, fx.objs)
        ELSE Effects(Append(fx.acts,
                            updateCyclePosition(cycle.id, newPosition.x, newPosition.z)),
                     fx.ai, fx.objs)

\* the body of physicsUpdate's loop for one cycle of the snapshot
TickCycle(fx, cycle, index, s, dt, currentTime, physicsTime, choice) ==
    TickMove(
        TickAI(TickTurn(TickJumpEnd(fx, cycle, currentTime), cycle, dt),
               cycle, index, s, currentTime, physicsTime, choice),
        cycle, s, dt, currentTime)

\* physicsUpdate(dt, state, currentTime): for (const cycle of aliveCycles)
RECURSIVE physicsUpdate(_, _, _, _, _, _, _)
physicsUpdate(fx, i, s, dt, currentTime, physicsTime, choice) ==
    IF i > Len(s.cycles) THEN fx
    ELSE IF ~s.cycles[i].isAlive
    THEN physicsUpdate(fx, i + 1, s, dt, currentTime, physicsTime, choice)
    ELSE physicsUpdate(
            TickCycle(fx, s.cycles[i], i, s, dt, currentTime, physicsTime, choice),
            i + 1, s, dt, currentTime, physicsTime, choice)

\* the loop with while (this.accumulator > PHYSICS_TIMESTEP)
RECURSIVE PhysicsLoopStrict(_, _, _, _)
PhysicsLoopStrict(run, s, currentTime, choice) ==
    IF run.accumulator > PHYSICS_TIMESTEP
    THEN PhysicsLoopStrict(
            [accumulator |-> run.accumulator - PHYSICS_TIMESTEP,
             physicsTime |-> run.physicsTime + PHYSICS_TIMESTEP,
             ticks       |-> run.ticks + 1,
             fx          |-> physicsUpdate(run.fx, 1, s, PHYSICS_TIMESTEP, currentTime,
                                           run.physicsTime, choice)],
            s, currentTime, choice)
    ELSE run

\* loop: while (this.accumulator >= PHYSICS_TIMESTEP) { ... }
\* run: [accumulator, physicsTime, ticks, fx]
RECURSIVE PhysicsLoop(_, _, _, _)
PhysicsLoop(run, s, currentTime, choice) ==
    IF run.accumulator >= PHYSICS_TIMESTEP
    THEN PhysicsLoop(
            [accumulator |-> run.accumulator - PHYSICS_TIMESTEP,
             physicsTime |-> run.physicsTime + PHYSICS_TIMESTEP,
             ticks       |-> run.ticks + 1,
             fx          |-> physicsUpdate(run.fx, 1, s, PHYSICS_TIMESTEP, currentTime,
                                           run.physicsTime, choice)],
            s, currentTime, choice)
    ELSE run

\* let deltaTime = currentTime - this.lastTime, clamped
ClampDelta(deltaTime) == IF deltaTime > MAX_DELTA THEN MAX_DELTA ELSE deltaTime

\* The loop's side of the world as one record:
\*   state: GameState, loop: the timing fields, objs: cycleObjects,
\*   ai: lastDecisionTime, timer: the auto-restart timeout,
\*   ticks/delta: physics ticks run and clamped delta of the last frame
World(s, l, objs, ai, timer, ticks, delta) ==
    [state |-> s, loop |-> l, objs |-> objs, ai |-> ai, timer |-> timer,
     ticks |-> ticks, delta |-> delta]

\* updateCountdown(deltaTime)
updateCountdown(w, deltaTime) ==
    LET t == w.loop.countdownTimer + deltaTime
    IN  IF t >= COUNTDOWN_TICK
        THEN [w EXCEPT !.loop.countdownTimer = 0,
                       !.state = gameReducer(w.state, [type |-> "DECREMENT_COUNTDOWN"])]
        ELSE [w EXCEPT !.loop.countdownTimer = t]

\* loop, case 'playing'.  Every physicsUpdate of the frame gets the state
\* read at the top of the callback; the dispatched actions reach the
\* reducer when the callback is over.
loopPlaying(w, deltaTime, currentTime, choice) ==
    LET run == PhysicsLoop(
                  [accumulator |-> w.loop.accumulator + deltaTime,
                   physicsTime |-> w.loop.physicsTime,
                   ticks       |-> 0,
                   fx          |-> Effects(<< >>, w.ai, w.objs)],
                  w.state, currentTime, choice)
    IN  [w EXCEPT !.loop.accumulator = run.accumulator,
                  !.loop.physicsTime = run.physicsTime,
                  !.state = ApplyActions(w.state, run.fx.acts),
                  !.ai = run.fx.ai,
                  !.objs = run.fx.objs,
                  !.ticks = run.ticks]

\* loop, case 'gameOver': schedule the auto-restart once
loopGameOver(w, currentTime) ==
    IF w.state.isNPCMode /\ ~w.loop.autoRestartScheduled
    THEN [w EXCEPT !.loop.autoRestartScheduled = TRUE,
                   !.timer = [armed |-> TRUE, due |-> currentTime + AUTO_RESTART_DELAY]]
    ELSE w

\* loopFrame adding the delta of a frame in phase paused or menu to the
\* accumulator
loopFrameIdleAccumulates(w, rawDelta, choice) ==
    LET currentTime == w.loop.lastTime + rawDelta
        deltaTime == ClampDelta(rawDelta)
        w0 == [w EXCEPT !.loop.lastTime = currentTime, !.ticks = 0, !.delta = deltaTime]
    IN  CASE w.state.phase = "countdown" -> updateCountdown(w0, deltaTime)
          [] w.state.phase = "playing"   -> loopPlaying(w0, deltaTime, currentTime, choice)
          [] w.state.phase = "gameOver"  -> loopGameOver(w0, currentTime)
          [] OTHER -> [w0 EXCEPT !.loop.accumulator = @ + deltaTime]

\* loop(currentTime), currentTime = lastTime + rawDelta
loopFrame(w, rawDelta, choice) ==
    LET currentTime == w.loop.lastTime + rawDelta
        deltaTime == ClampDelta(rawDelta)
        w0 == [w EXCEPT !.loop.lastTime = currentTime, !.ticks = 0, !.delta = deltaTime]
    IN  CASE w.state.phase = "countdown" -> updateCountdown(w0, deltaTime)
          [] w.state.phase = "playing"   -> loopPlaying(w0, deltaTime, currentTime, choice)
          [] w.state.phase = "gameOver"  -> loopGameOver(w0, currentTime)
          [] OTHER                       -> w0

\* dispatch(restartGame()) and the re-initialisation of the cycle objects
\* that follows it (the restart effect of GameCanvas, the setTimeout(0))
dispatchRestart(w, spawn) ==
    LET s2 == gameReducer(w.state, restartGame(spawn))
    IN  [w EXCEPT !.state = s2, !.objs = initializeCycles(s2.cycles)]

\* handleInput(action); performance.now() is taken as the last frame's time
handleInput(w, action, spawn) ==
    LET s == w.state
        currentTime == w.loop.lastTime
        take == IF s.isNPCMode /\ action \in {"turnLeft", "turnRight", "jump"}
                THEN <<[type |-> "TAKE_CONTROL"]>> ELSE << >>
        fx0 == Effects(take, w.ai, w.objs)
        fx == CASE action = "turnLeft" ->
                     IF s.phase = "playing" THEN handleTurn(fx0, "player", "left", s) ELSE fx0
                [] action = "turnRight" ->
                     IF s.phase = "playing" THEN handleTurn(fx0, "player", "right", s) ELSE fx0
                [] action = "jump" ->
                     IF s.phase = "playing" THEN handleJump(fx0, "player", currentTime, s)
                     ELSE fx0
                [] action = "toggleCamera" ->
                     Effects(Append(fx0.acts, [type |-> "TOGGLE_CAMERA"]), fx0.ai, fx0.objs)
                [] action = "pause" ->
                     IF s.phase = "playing"
                     THEN Effects(Append(fx0.acts, [type |-> "PAUSE_GAME"]), fx0.ai, fx0.objs)
                     ELSE IF s.phase = "paused"
                     THEN Effects(Append(fx0.acts, [type |-> "RESUME_GAME"]), fx0.ai, fx0.objs)
                     ELSE fx0
                [] action = "confirm" ->
                     IF s.phase = "menu"
                     THEN Effects(Append(fx0.acts, [type |-> "START_GAME", spawn |-> spawn]),
                                  fx0.ai, fx0.objs)
                     ELSE IF s.phase = "paused"
                     THEN Effects(Append(fx0.acts, [type |-> "RESUME_GAME"]), fx0.ai, fx0.objs)
                     ELSE fx0
                [] OTHER -> fx0
        w1 == [w EXCEPT !.state = ApplyActions(s, fx.acts), !.ai = fx.ai, !.objs = fx.objs]
    IN  IF action = "confirm" /\ s.phase = "gameOver"
        THEN dispatchRestart(w1, spawn)
        ELSE w1

\* the auto-restart timeout's callback
autoRestart(w, spawn) ==
    dispatchRestart([w EXCEPT !.loop.autoRestartScheduled = FALSE,
                              !.timer = [armed |-> FALSE, due |-> 0]],
                    spawn)

\* dispose(): stop() cancels the animation frame, the input manager and the
\* listeners are removed, the cycle objects cleared.  The timeout of the
\* auto-restart is not touched: no handle of it is kept.
dispose(w) ==
    [w EXCEPT !.loop.running = FALSE, !.objs = << >>]

\* the world after GameProvider and GameCanvas mounted: createInitialState,
\* new GameLoop, initializeCycles, start()
Boot(spawn) ==
    LET s == createInitialState(spawn)
    IN  World(s,
              [lastTime |-> 0, accumulator |-> 0, physicsTime |-> 0,
               countdownTimer |-> 0, autoRestartScheduled |-> FALSE, running |-> TRUE],
              initializeCycles(s.cycles),
              [id \in IdSet |-> 0],
              [armed |-> FALSE, due |-> 0],
              0, 0)

-----------------------------------------------------------------------------
(* Starting points.  A round lasts hundreds of frames, so the behaviours   *)
(* start from the mounted game and from later states of it, each computed  *)
(* by running the loop itself over a fixed prefix of frames and inputs.    *)

\* n frames of rawDelta each, no AI command
RECURSIVE RunFrames(_, _, _)
RunFrames(w, rawDelta, n) ==
    IF n = 0 THEN w
    ELSE IF n = 1 THEN loopFrame(w, rawDelta, NoChoice)
    ELSE LET half == RunFrames(w, rawDelta, n \div 2)
         IN  \* the test only orders the evaluation: the first half first
             IF half.ticks >= 0 THEN RunFrames(half, rawDelta, n - n \div 2) ELSE half

\* a prefix: frames ([raw, n]), one frame with an AI command ([raw, choice])
\* or a key press ([action])
RECURSIVE Replay(_, _)
Replay(w, script) ==
    IF script = << >> THEN w
    ELSE LET st == Head(script)
             w1 == CASE st.kind = "frames" -> RunFrames(w, st.raw, st.n)
                     [] st.kind = "frame"  -> loopFrame(w, st.raw, st.choice)
                     [] st.kind = "key"    -> handleInput(w, st.action, << >>)
         IN  Replay(w1, Tail(script))

Frames(raw, n) == [kind |-> "frames", raw |-> raw, n |-> n]
AIFrame(raw, agent, command) ==
    [kind |-> "frame", raw |-> raw, choice |-> [agent |-> agent, kind |-> command]]
Key(action) == [kind |-> "key", action |-> action]

IdentityPerm == <<1, 2, 3, 4>>

\* spawn draws: the base order; one with the east and west riders offset
\* from the centre lines, one with only the west rider offset
SpawnOffset == generateSpawnPositions(IdentityPerm, <<0, 0, SPAWN_VARIANCE, -SPAWN_VARIANCE>>)
SpawnThree == generateSpawnPositions(IdentityPerm, <<0, 0, 0, SPAWN_VARIANCE>>)
SpawnShuffled == generateSpawnPositions(<<3, 1, 4, 2>>, <<5000, -5000, 0, 12000>>)

SpawnDraws == {SpawnOffset, SpawnThree, SpawnShuffled}

\* the countdown runs out after 16 frames of MAX_DELTA
CountdownFrames == Frames(MAX_DELTA, 16)

\* the player presses turn-right in the fifth playing frame
TurnPrefix == <<CountdownFrames, Frames(PHYSICS_TIMESTEP, 4), Key("turnRight")>>

TurnStart ==
    Replay(Boot(SpawnOffset),
           TurnPrefix \o <<Frames(PHYSICS_TIMESTEP, 22), AIFrame(PHYSICS_TIMESTEP, 2, "jump")>>)

Starts ==
    { \* the mounted game
      Boot(SpawnShuffled),
      \* one second short of the end of the countdown
      Replay(Boot(SpawnOffset), <<Frames(MAX_DELTA, 15)>>),
      \* player, ai-1 and ai-2 about to meet at the centre, ai-3 passing by
      Replay(Boot(SpawnThree), <<CountdownFrames, Frames(PHYSICS_TIMESTEP, 241)>>),
      \* player and ai-1 about to meet head-on, ai-2 and ai-3 passing by
      Replay(Boot(SpawnOffset), <<CountdownFrames, Frames(PHYSICS_TIMESTEP, 241)>>),
      \* later in that round: ai-2 and ai-3, the last two, reach opposite walls
      Replay(Boot(SpawnOffset), <<CountdownFrames, Frames(PHYSICS_TIMESTEP, 563)>>),
      \* the same round, but the AI has made ai-3 and ai-2 jump two and
      \* three ticks before: they reach the walls in the air
      Replay(Boot(SpawnOffset),
             <<CountdownFrames, Frames(PHYSICS_TIMESTEP, 560),
               AIFrame(PHYSICS_TIMESTEP, 3, "jump"),
               AIFrame(PHYSICS_TIMESTEP, 4, "jump"),
               Frames(PHYSICS_TIMESTEP, 1)>>),
      \* the player's right turn, one angle step short of its target; the AI
      \* has made ai-1 jump in the last tick
      TurnStart,
      \* paused after four ticks with 40 left in the accumulator, after the
      \* player took control
      Replay(Boot(SpawnShuffled),
             <<CountdownFrames, Frames(PHYSICS_TIMESTEP, 3), Frames(90, 1),
               Key("turnLeft"), Key("pause")>>) }

\* frame deltas: no tick, one tick, two ticks and a remainder, a stalled tab
Deltas == {20, PHYSICS_TIMESTEP, 110, AUTO_RESTART_DELAY}

InputActions == {"turnLeft", "turnRight", "jump", "toggleCamera", "pause", "confirm"}

\* what the AI's scoring may command in a frame, and for which cycle
Choices == {NoChoice} \cup [agent : 1..4, kind : {"left", "right", "jump"}]

NoProbe == [kind |-> "none"]

-----------------------------------------------------------------------------
(* The game as a state machine.                                            *)

Current == World(state, loop, cycleObjects, lastDecisionTime, restartTimer,
                 hist.ticks, hist.delta)

\* The step to world w by operation op.  hist is a history variable: the
\* operation, its raw delta, the ticks it ran and the delta it used, the
\* frames and commands spent, the phase it started in and the scores at the
\* start of the round.
Becomes(w, op, raw, frames, commands) ==
    /\ state' = w.state
    /\ loop' = w.loop
    /\ cycleObjects' = w.objs
    /\ lastDecisionTime' = w.ai
    /\ restartTimer' = w.timer
    /\ hist' = [op |-> op, raw |-> raw, ticks |-> w.ticks, delta |-> w.delta,
                frames |-> frames, commands |-> commands,
                prev |-> state.phase,
                startScores |-> IF state.phase = "countdown" /\ w.state.phase = "playing"
                                THEN w.state.scores ELSE hist.startScores]
    /\ UNCHANGED probe

Init ==
    \E w \in Starts :
        /\ state = w.state
        /\ loop = w.loop
        /\ cycleObjects = w.objs
        /\ lastDecisionTime = w.ai
        /\ restartTimer = w.timer
        /\ hist = [op |-> "start", raw |-> 0, ticks |-> 0, delta |-> 0,
                   frames |-> 0, commands |-> 0,
                   prev |-> w.state.phase, startScores |-> w.state.scores]
        /\ probe = NoProbe

\* the timeout has run out: frames carry the clock while the loop runs,
\* after dispose() time passes without frames
TimerDue ==
    /\ restartTimer.armed
    /\ loop.lastTime >= restartTimer.due \/ ~loop.running

\* one animation frame: loop(currentTime)
Frame ==
    \E raw \in Deltas, choice \in Choices :
        /\ loop.running
        /\ ~TimerDue
        /\ hist.frames < MaxFrames
        /\ choice.agent # 0 =>
              /\ hist.commands < MaxCommands
              /\ state.phase = "playing"
              /\ state.cycles[choice.agent].isAlive
        /\ LET w == loopFrame(Current, raw, choice)
           IN  Becomes(w, "frame", raw, hist.frames + 1,
                       hist.commands + (IF w.ai # lastDecisionTime THEN 1 ELSE 0))

\* a key the InputManager maps to an action
KeyPress ==
    \E action \in InputActions, spawn \in SpawnDraws :
        /\ loop.running
        /\ hist.commands < MaxCommands
        /\ Becomes(handleInput(Current, action, spawn), action, 0, hist.frames,
                   hist.commands + 1)

\* PauseMenu: onResume
MenuResume ==
    /\ loop.running
    /\ state.phase = "paused"
    /\ hist.commands < MaxCommands
    /\ Becomes([Current EXCEPT !.state = gameReducer(state, [type |-> "RESUME_GAME"])],
               "menuResume", 0, hist.frames, hist.commands + 1)

\* PauseMenu and GameOverMenu: onRestart
MenuRestart ==
    \E spawn \in SpawnDraws :
        /\ loop.running
        /\ state.phase \in {"paused", "gameOver"}
        /\ hist.commands < MaxCommands
        /\ Becomes(dispatchRestart(Current, spawn), "menuRestart", 0, hist.frames,
                   hist.commands + 1)

\* the auto-restart timeout fires
AutoRestart ==
    \E spawn \in SpawnDraws :
        /\ TimerDue
        /\ Becomes(autoRestart(Current, spawn), "autoRestart", 0, hist.frames,
                   hist.commands)

\* GameCanvas unmounts: the cleanup of its mount effect calls dispose()
Dispose ==
    /\ loop.running
    /\ hist.commands < MaxCommands
    /\ Becomes(dispose(Current), "dispose", 0, hist.frames, hist.commands + 1)

Next == Frame \/ KeyPress \/ MenuResume \/ MenuRestart \/ AutoRestart \/ Dispose

Spec == Init /\ [][Next]_vars

-----------------------------------------------------------------------------
(* Properties of the running game (specification Spec).                    *)

AliveCount(s) == Cardinality({i \in 1..Len(s.cycles) : s.cycles[i].isAlive})

\* equal modulo 2*pi
SameAngle(a, b) == (a - b) % TWO_PI = 0

\* the step is a frame the loop processed in phase playing
PlayingFrame == hist'.op = "frame" /\ state.phase = "playing"

\* C2: when a round driven by the frame loop is over with a sole survivor,
\* the survivor's score is one above its score at the start of the round and
\* every other score is what it was at the start of the round.
C2_SoleSurvivorScoresOnce ==
    (state.phase = "gameOver" /\ state.winner # NoWinner) =>
        state.scores = [hist.startScores EXCEPT ![state.winner] = @ + 1]

\* C3: a tick in which the last two living agents both collide ends the
\* round with winner null and every score as it was before the tick.
C3_DoubleKnockoutKeepsScores ==
    [][(PlayingFrame /\ hist'.ticks = 1 /\ AliveCount(state) = 2
            /\ AliveCount(state') = 0)
        => /\ state'.phase = "gameOver"
           /\ state'.winner = NoWinner
           /\ state'.scores = state.scores]_vars

ClaimedEdges ==
    { <<"countdown", "playing">>, <<"playing", "paused">>, <<"paused", "playing">>,
      <<"playing", "gameOver">>, <<"gameOver", "countdown">> }

\* the pause menu's Restart button
AmendedEdges == ClaimedEdges \cup { <<"paused", "countdown">> }

\* C4 (amended): under frames, keys, menu buttons and the auto-restart
\* timer the phase changes only along countdown->playing, playing->paused,
\* paused->playing, playing->gameOver, gameOver->countdown and
\* paused->countdown.
C4_PhaseEdges ==
    [][state'.phase # state.phase => <<state.phase, state'.phase>> \in AmendedEdges]_vars

\* C4 as claimed: the five edges without paused->countdown.
C4_ClaimedPhaseEdges ==
    [][state'.phase # state.phase => <<state.phase, state'.phase>> \in ClaimedEdges]_vars

\* a restart out of the pause menu has happened
C4_RestartFromPause ==
    hist.op = "menuRestart" /\ hist.prev = "paused" /\ state.phase = "countdown"

\* the state k frames of one tick each lead to
RECURSIVE OneTickFrames(_, _)
OneTickFrames(w, k) ==
    IF k = 0 THEN w
    ELSE LET w1 == loopFrame([w EXCEPT !.loop.accumulator = 0], PHYSICS_TIMESTEP, NoChoice)
         IN  IF w1.ticks = 1 THEN OneTickFrames(w1, k - 1) ELSE w1

\* C5: a frame that runs k ticks leaves every agent that stays alive where
\* k frames of one tick each leave it, in position and in angle.
C5_FrameRateIndependence ==
    [][(PlayingFrame /\ hist'.ticks >= 1 /\ hist'.commands = hist.commands)
        => LET ref == OneTickFrames(Current, hist'.ticks).state
           IN  \A i \in 1..Len(state.cycles) :
                  (state'.cycles[i].isAlive /\ ref.cycles[i].isAlive) =>
                      /\ state'.cycles[i].gridPosition = ref.cycles[i].gridPosition
                      /\ state'.cycles[i].angle = ref.cycles[i].angle]_vars

\* C6: a frame processed in phase playing clamps its delta to MAX_DELTA,
\* runs floor((accumulator + delta) / PHYSICS_TIMESTEP) ticks, leaves
\* 0 <= accumulator < PHYSICS_TIMESTEP, and physicsTime + accumulator grows
\* by exactly the clamped delta; no other step changes either of the two.
C6_FrameTiming ==
    [][IF PlayingFrame
       THEN /\ hist'.delta = Min(hist'.raw, MAX_DELTA)
            /\ hist'.ticks = (loop.accumulator + hist'.delta) \div PHYSICS_TIMESTEP
            /\ loop'.accumulator >= 0
            /\ loop'.accumulator < PHYSICS_TIMESTEP
            /\ loop'.physicsTime + loop'.accumulator
                  = loop.physicsTime + loop.accumulator + hist'.delta
       ELSE /\ loop'.accumulator = loop.accumulator
            /\ loop'.physicsTime = loop.physicsTime]_vars

\* an over-long frame was clamped and ran MAX_DELTA's worth of ticks on
\* top of a remainder
C6_ClampedFrame ==
    /\ hist.op = "frame" /\ hist.prev = "playing"
    /\ hist.raw > MAX_DELTA
    /\ hist.delta = MAX_DELTA
    /\ hist.ticks = MAX_DELTA \div PHYSICS_TIMESTEP
    /\ loop.accumulator > 0

\* C7: every agent that is not turning has the cardinal angle of its
\* direction, modulo 2*pi.
C7_AngleAgreesWithDirection ==
    \A i \in 1..Len(state.cycles) :
        ~state.cycles[i].isTurning =>
            SameAngle(state.cycles[i].angle, DIRECTION_TO_ANGLE(state.cycles[i].direction))

\* C8 (amended): a step that starts a turn or finds the agent turning
\* leaves the agent's direction as it was; the destination is held by
\* targetAngle alone, a quarter turn from the angle the turn started at.
C8_TurningKeepsDirection ==
    [][\A i \in 1..Len(state.cycles) :
          state'.cycles[i].isTurning =>
              /\ state'.cycles[i].direction = state.cycles[i].direction
              /\ ~state.cycles[i].isTurning =>
                    \/ SameAngle(state'.cycles[i].targetAngle, state.cycles[i].angle + HALF_PI)
                    \/ SameAngle(state'.cycles[i].targetAngle, state.cycles[i].angle - HALF_PI)]_vars

\* C8 as claimed: a turning agent's direction is the cardinal of its target.
C8_DirectionIsDestination ==
    \A i \in 1..Len(state.cycles) :
        state.cycles[i].isTurning =>
            SameAngle(DIRECTION_TO_ANGLE(state.cycles[i].direction),
                      state.cycles[i].targetAngle)

\* an agent is in the middle of a turn, its angle between the two cardinals
C8_MidTurn ==
    \E i \in 1..Len(state.cycles) :
        /\ state.cycles[i].isTurning
        /\ state.cycles[i].isAlive
        /\ hist.op = "frame"
        /\ ~SameAngle(state.cycles[i].angle, DIRECTION_TO_ANGLE(state.cycles[i].direction))
        /\ ~SameAngle(state.cycles[i].angle, state.cycles[i].targetAngle)

\* a step that restarts the round
RestartStep ==
    /\ hist'.op \in {"confirm", "menuRestart", "autoRestart"}
    /\ state'.phase = "countdown"
    /\ state'.countdown = COUNTDOWN_START

\* C15: a turn-left, turn-right or jump input leaves isNPCMode false; once
\* false it stays false in every step but a restart; and a frame that
\* starts with isNPCMode false takes no AI decision for the player: the
\* player's decision time is unchanged and the player starts no turn and
\* no jump in it.
C15_TakeControl ==
    [][/\ hist'.op \in {"turnLeft", "turnRight", "jump"} => ~state'.isNPCMode
       /\ (~state.isNPCMode /\ state'.isNPCMode) => RestartStep
       /\ (hist'.op = "frame" /\ ~state.isNPCMode) =>
             /\ lastDecisionTime'["player"] = lastDecisionTime["player"]
             /\ state'.cycles[1].isTurning => state.cycles[1].isTurning
             /\ state'.cycles[1].isJumping => state.cycles[1].isJumping]_vars

\* the human has taken control and an AI agent is commanded in a frame
C15_AIStillDrivesOthers ==
    /\ ~state.isNPCMode
    /\ hist.op = "frame"
    /\ hist.commands = 1
    /\ state.phase = "playing"
    /\ lastDecisionTime["player"] = 0
    /\ \E i \in 2..4 :
          /\ lastDecisionTime[Ids[i]] >= loop.physicsTime - hist.ticks * PHYSICS_TIMESTEP
          /\ lastDecisionTime[Ids[i]] > 0
          /\ state.cycles[i].isTurning \/ state.cycles[i].isJumping

\* C17: two commanding AI decisions for an agent are at least
\* DECISION_INTERVAL of physics time apart, and in a frame that ends less
\* than DECISION_INTERVAL after an agent's last commanding decision the AI
\* commands nothing for it: its decision time stays and it starts no turn
\* and no jump.
C17_DecisionThrottle ==
    [][hist'.op = "frame" =>
          \A i \in 1..4 :
              /\ lastDecisionTime'[Ids[i]] # lastDecisionTime[Ids[i]] =>
                    lastDecisionTime'[Ids[i]] - lastDecisionTime[Ids[i]] >= DECISION_INTERVAL
              /\ loop'.physicsTime - lastDecisionTime[Ids[i]] < DECISION_INTERVAL =>
                    /\ lastDecisionTime'[Ids[i]] = lastDecisionTime[Ids[i]]
                    /\ state'.cycles[i].isTurning => state.cycles[i].isTurning
                    /\ state'.cycles[i].isJumping => state.cycles[i].isJumping]_vars

\* ai-1, commanded in the last tick before the start, is commanded again in
\* a long frame, at the first tick DECISION_INTERVAL or more later
C17_SecondDecision ==
    /\ hist.op = "frame"
    /\ hist.commands = 1
    /\ TurnStart.ai["ai-1"] > 0
    /\ lastDecisionTime["ai-1"] >= TurnStart.ai["ai-1"] + DECISION_INTERVAL
    /\ lastDecisionTime["ai-1"] < TurnStart.ai["ai-1"] + DECISION_INTERVAL + PHYSICS_TIMESTEP
    /\ state.cycles[2].isJumping
    /\ state.cycles[2].isTurning

\* C16: after the loop is stopped or disposed no action is dispatched to
\* the state machine: the state does not change any more and a pending
\* auto-restart timer never dispatches its restart.
C16_NoDispatchAfterDispose ==
    [][~loop.running => (state' = state /\ hist'.op # "autoRestart")]_vars

\* C18: whenever a round is restarted (confirm input, menu button or
\* auto-restart) the decision times of all agents are cleared.
C18_RestartClearsDecisionTimes ==
    [][RestartStep => lastDecisionTime' = [id \in IdSet |-> 0]]_vars

\* C24: in a frame of n ticks during play, an agent that is alive and
\* turning and stays alive has afterwards the angle of n ticks of turning:
\* each tick moves the angle toward targetAngle by min(TURN_STEP, remaining
\* difference) along the shorter way, and the first tick that finds the
\* remaining difference at most TURN_THRESHOLD ends the turn with angle =
\* targetAngle, isTurning = false and targetAngle = -1.
C24_TurnAdvancesEveryTick ==
    [][(PlayingFrame /\ hist'.ticks >= 1 /\ hist'.commands = hist.commands)
        => \A i \in 1..Len(state.cycles) :
              LET tick(c) ==
                      IF ~c.isTurning THEN c
                      ELSE IF Abs(normalizeAngle(c.targetAngle - c.angle)) <= TURN_THRESHOLD
                      THEN [c EXCEPT !.angle = c.targetAngle, !.isTurning = FALSE,
                                     !.targetAngle = NO_TARGET]
                      ELSE [c EXCEPT !.angle = normalizeAngle(
                               c.angle
                               + (IF normalizeAngle(c.targetAngle - c.angle) > 0
                                  THEN 1 ELSE -1)
                                 * Min(TURN_STEP,
                                       Abs(normalizeAngle(c.targetAngle - c.angle))))]
                  c0 == state.cycles[i]
                  after == CASE hist'.ticks = 1 -> tick(c0)
                             [] hist'.ticks = 2 -> tick(tick(c0))
                             [] hist'.ticks = 3 -> tick(tick(tick(c0)))
                             [] hist'.ticks = 4 -> tick(tick(tick(tick(c0))))
                             [] hist'.ticks = 5 -> tick(tick(tick(tick(tick(c0)))))
                             [] OTHER -> tick(tick(tick(tick(tick(tick(c0))))))
              IN  (/\ c0.isAlive /\ c0.isTurning /\ c0.targetAngle # NO_TARGET
                   /\ state'.cycles[i].isAlive) =>
                      /\ state'.cycles[i].angle = after.angle
                      /\ state'.cycles[i].isTurning = after.isTurning
                      /\ state'.cycles[i].targetAngle = after.targetAngle]_vars

\* C25: in a frame of play that runs a tick, a living agent in the air
\* (jumping, jump height above 0.5) is at its candidate position afterwards
\* and alive, untested; every other living agent is tested at its
\* candidate position: on a collision it is dead afterwards and where it
\* was, otherwise it is alive at the candidate position.
C25_CollideOrCommit ==
    [][(PlayingFrame /\ hist'.ticks >= 1)
        => \A i \in 1..Len(state.cycles) :
              LET c == state.cycles[i]
                  candidate == moveForwardAngle(
                                   c.gridPosition, c.angle,
                                   calculateMovement(PHYSICS_TIMESTEP, c.speed))
                  inAir == /\ c.isJumping
                           /\ calculateJumpY(c.jumpStartTime, loop'.lastTime)
                                 > AIR_THRESHOLD
                  killed == /\ ~state'.cycles[i].isAlive
                            /\ state'.cycles[i].gridPosition = c.gridPosition
                  committed == /\ state'.cycles[i].isAlive
                               /\ state'.cycles[i].gridPosition = candidate
              IN  c.isAlive =>
                      IF inAir THEN committed
                      ELSE IF checkCollision(candidate, c.id, state.cycles).collided
                      THEN killed
                      ELSE committed]_vars

\* a frame of play has killed ai-2, which every round of the model starts
\* with alive, while another agent moved on
C25_KilledInPlace ==
    /\ hist.op = "frame"
    /\ hist.prev = "playing"
    /\ hist.ticks >= 1
    /\ ~state.cycles[3].isAlive
    /\ \E i \in 1..Len(state.cycles) : state.cycles[i].isAlive

\* C26: a step that starts in phase paused and ends in paused or playing
\* runs no tick and changes no agent's position, angle, trail or alive
\* flag, and it leaves the accumulator and the physics time alone; the
\* first frame of play after a resume runs the ticks that its own clamped
\* delta and that accumulator make up, and no more.
C26_PauseHoldsTheClock ==
    [][/\ (state.phase = "paused" /\ state'.phase \in {"paused", "playing"})
            => /\ hist'.op = "frame" => hist'.ticks = 0
               /\ loop'.accumulator = loop.accumulator
               /\ loop'.physicsTime = loop.physicsTime
               /\ \A i \in 1..Len(state.cycles) :
                     /\ state'.cycles[i].gridPosition = state.cycles[i].gridPosition
                     /\ state'.cycles[i].angle = state.cycles[i].angle
                     /\ state'.cycles[i].trail = state.cycles[i].trail
                     /\ state'.cycles[i].isAlive = state.cycles[i].isAlive
       /\ (PlayingFrame /\ hist.prev = "paused")
            => LET due == loop.accumulator + Min(hist'.raw, MAX_DELTA)
               IN  /\ hist'.ticks = due \div PHYSICS_TIMESTEP
                   /\ loop'.accumulator = due % PHYSICS_TIMESTEP
                   /\ loop'.physicsTime
                        = loop.physicsTime + hist'.ticks * PHYSICS_TIMESTEP]_vars

\* the game paused after four ticks with 40 in the accumulator, stayed
\* paused over a frame of AUTO_RESTART_DELAY, was resumed, and its next
\* frame of 20 has run the fifth tick
C26_ResumedAfterStall ==
    /\ hist.op = "frame"
    /\ hist.prev = "playing"
    /\ hist.raw = 20
    /\ hist.ticks = 1
    /\ hist.frames = 2
    /\ hist.commands = 1
    /\ loop.physicsTime = 5 * PHYSICS_TIMESTEP
    /\ loop.accumulator = 10
    /\ loop.lastTime = 16 * MAX_DELTA + 3 * PHYSICS_TIMESTEP + 90
                          + AUTO_RESTART_DELAY + 20

\* C27: the auto-restart timeout restarts the round only when, as it fires,
\* the phase is still gameOver and the game is still in autonomous mode.
C27_NoStaleAutoRestart ==
    [][hist'.op = "autoRestart"
        => state.phase = "gameOver" /\ state.isNPCMode]_vars

\* C28: in a step within a round an agent's trail grows by one segment if
\* the step starts a turn of the agent (it was alive and not turning, and
\* is turning afterwards) and is unchanged otherwise, so that the segments
\* of a round count the turns started; an appended segment starts where
\* the previous one ends, the first where the trail was attached at spawn.
C28_SegmentPerStartedTurn ==
    [][(state'.phase # "countdown" /\ state.phase # "countdown")
        => \A i \in 1..Len(state.cycles) :
              LET c == state.cycles[i]
                  d == state'.cycles[i]
                  n == Len(c.trail)
                  started == c.isAlive /\ ~c.isTurning /\ d.isTurning
              IN  IF started
                  THEN /\ Len(d.trail) = n + 1
                       /\ SubSeq(d.trail, 1, n) = c.trail
                       /\ d.trail[n + 1].start
                            = IF n = 0 THEN cycleObjects[c.id].lastTurnPosition
                              ELSE c.trail[n].end
                  ELSE d.trail = c.trail]_vars

\* C29: every living agent is inside the inset arena square: |x| and |z|
\* are at most ARENA_HALF - 0.4.
C29_LivingInsideArena ==
    \A i \in 1..Len(state.cycles) :
        LET c == state.cycles[i]
            limit == ARENA_HALF - CYCLE_RADIUS
        IN  c.isAlive =>
                /\ -limit <= c.gridPosition.x /\ c.gridPosition.x <= limit
                /\ -limit <= c.gridPosition.z /\ c.gridPosition.z <= limit

-----------------------------------------------------------------------------
(* The reducer as a function (specification SpecReducer): killCycle(id)    *)
(* applied to playing states with every set of living agents that holds id *)
(* and every table of scores up to MaxScore; restartGame() applied to a    *)
(* used round and followed by the countdown's decrements; every plain      *)
(* action, those naming an agent also with an id no agent has, applied in  *)
(* every phase.                                                            *)

\* the game itself stands still while a function is probed
Parked ==
    LET w == Boot(SpawnThree)
    IN  /\ state = w.state
        /\ loop = w.loop
        /\ cycleObjects = w.objs
        /\ lastDecisionTime = w.ai
        /\ restartTimer = w.timer
        /\ hist = [op |-> "start", raw |-> 0, ticks |-> 0, delta |-> 0,
                   frames |-> 0, commands |-> 0,
                   prev |-> w.state.phase, startScores |-> w.state.scores]

PlayingState(alive, scores, npc) ==
    LET s == createInitialState(SpawnThree)
    IN  [s EXCEPT !.phase = "playing",
                  !.countdown = 0,
                  !.cycles = [i \in 1..4 |-> [s.cycles[i] EXCEPT !.isAlive = Ids[i] \in alive]],
                  !.scores = scores,
                  !.isNPCMode = npc]

\* A round in progress: the player is turning left and has a trail, ai-1 is
\* in the air, ai-2 has moved, ai-3 is dead.
UsedState(phase, scores) ==
    LET s == ApplyActions(
                 PlayingState(IdSet, scores, FALSE),
                 << startTurn("player", "left"),
                    updateAngle("player", 9000),
                    addTrailSegment("player",
                        [start |-> [x |-> 0, z |-> 54000], end |-> [x |-> 0, z |-> 40000],
                         direction |-> "north"]),
                    startJump("ai-1", 300),
                    updateCyclePosition("ai-2", -20000, 7000),
                    killCycle("ai-3") >>)
    IN  [s EXCEPT !.phase = phase,
                  !.countdown = IF phase = "countdown" THEN 1 ELSE 0,
                  !.winner = IF phase = "gameOver" THEN "ai-1" ELSE NoWinner]

\* the results of generateSpawnPositions(): orders of the sort, and draws
\* of (Math.random() - 0.5) * 40 at the ends and the middle of its range
RoundSpawns ==
    {generateSpawnPositions(perm, variance) :
        perm \in {IdentityPerm, <<3, 1, 4, 2>>},
        variance \in [1..4 -> {-SPAWN_VARIANCE, 0, SPAWN_VARIANCE}]}

\* the actions that do not regenerate spawns; END_JUMP is dispatched
\* without the time, which its case reads from performance.now()
PlainActions ==
    { [type |-> "PAUSE_GAME"], [type |-> "RESUME_GAME"],
      startTurn("ai-1", "right"), updateAngle("player", 9100), endTurn("player"),
      updateCyclePosition("ai-2", -19000, 7000), startJump("ai-2", 900),
      [type |-> "END_JUMP", cycleId |-> "ai-1"], killCycle("ai-2"),
      addTrailSegment("ai-1",
          [start |-> [x |-> 0, z |-> -54000], end |-> [x |-> 0, z |-> -40000],
           direction |-> "south"]),
      [type |-> "TOGGLE_CAMERA"], setCamera("topDown"),
      [type |-> "DECREMENT_COUNTDOWN"], [type |-> "TAKE_CONTROL"],
      \* the per-agent actions naming an id that no agent has
      startTurn("ghost", "left"), updateAngle("ghost", 9100), endTurn("ghost"),
      updateCyclePosition("ghost", 1000, 2000), startJump("ghost", 900),
      [type |-> "END_JUMP", cycleId |-> "ghost"], killCycle("ghost"),
      addTrailSegment("ghost",
          [start |-> [x |-> 0, z |-> 0], end |-> [x |-> 0, z |-> 1000],
           direction |-> "south"]) }

\* now1, now2: two readings of performance.now()
InitReducer ==
    /\ Parked
    /\ \/ \E alive \in SUBSET IdSet, scores \in [IdSet -> 0..MaxScore], npc \in BOOLEAN :
              \E cycleId \in alive :
                  LET s == PlayingState(alive, scores, npc)
                  IN  probe = [kind |-> "kill", done |-> FALSE, s |-> s,
                               cycleId |-> cycleId, out |-> s]
       \/ \E phase \in {"countdown", "playing", "paused", "gameOver"},
             top \in {0, MaxScore} :
              LET s == UsedState(phase, [id \in IdSet |-> IF id = "ai-1" THEN top ELSE 0])
              IN  probe = [kind |-> "round", restarted |-> FALSE, n |-> 0, s |-> s,
                           fresh |-> s.cycles, out |-> s]
       \/ \E phase \in {"countdown", "playing", "paused", "gameOver", "won"},
             action \in PlainActions, now1 \in {3300, 3350}, now2 \in {3300, 3350} :
              \* "won": the round in progress after player and ai-2 have
              \* crashed as well, game over with ai-1 the sole survivor
              LET s == IF phase = "won"
                       THEN ApplyActions(UsedState("playing", [id \in IdSet |-> 0]),
                                         <<killCycle("player"), killCycle("ai-2")>>)
                       ELSE UsedState(phase, [id \in IdSet |-> 0])
              IN  probe = [kind |-> "pure", done |-> FALSE, s |-> s, action |-> action,
                           now1 |-> now1, now2 |-> now2, out1 |-> s, out2 |-> s]

\* dispatch(killCycle(cycleId))
KillCycle ==
    /\ probe.kind = "kill"
    /\ ~probe.done
    /\ probe' = [probe EXCEPT !.done = TRUE,
                              !.out = gameReducer(probe.s, killCycle(probe.cycleId))]
    /\ UNCHANGED <<state, loop, cycleObjects, lastDecisionTime, restartTimer, hist>>

\* dispatch(restartGame())
RestartGame ==
    /\ probe.kind = "round"
    /\ ~probe.restarted
    /\ \E spawn \in RoundSpawns :
          LET out == gameReducer(probe.s, restartGame(spawn))
          IN  probe' = [probe EXCEPT !.restarted = TRUE, !.out = out, !.fresh = out.cycles]
    /\ UNCHANGED <<state, loop, cycleObjects, lastDecisionTime, restartTimer, hist>>

\* dispatch({ type: 'DECREMENT_COUNTDOWN' }) in the restarted round
DecrementCountdown ==
    /\ probe.kind = "round"
    /\ probe.restarted
    /\ probe.n <= COUNTDOWN_START + 1
    /\ probe' = [probe EXCEPT
                    !.n = probe.n + 1,
                    !.out = gameReducer(probe.out, [type |-> "DECREMENT_COUNTDOWN"])]
    /\ UNCHANGED <<state, loop, cycleObjects, lastDecisionTime, restartTimer, hist>>

\* dispatch(action) when performance.now() reads now
dispatchAt(s, action, now) ==
    gameReducer(s, IF action.type = "END_JUMP" THEN endJump(action.cycleId, now)
                   ELSE action)

\* the same action dispatched twice on the same state, at two times
DispatchTwice ==
    /\ probe.kind = "pure"
    /\ ~probe.done
    /\ probe' = [probe EXCEPT
                    !.done = TRUE,
                    !.out1 = dispatchAt(probe.s, probe.action, probe.now1),
                    !.out2 = dispatchAt(probe.s, probe.action, probe.now2)]
    /\ UNCHANGED <<state, loop, cycleObjects, lastDecisionTime, restartTimer, hist>>

NextReducer ==
    \/ KillCycle
    \/ RestartGame
    \/ DecrementCountdown
    \/ DispatchTwice

SpecReducer == InitReducer /\ [][NextReducer]_vars

AliveIds(s) == {s.cycles[i].id : i \in {j \in 1..Len(s.cycles) : s.cycles[j].isAlive}}

\* C1: killCycle(id) on a playing state where id is alive: with one agent
\* left the phase is gameOver, the winner is that agent and only its score
\* changes, by +1; with none left the phase is gameOver, the winner null and
\* no score changes; with two or more left the phase stays playing and
\* winner and scores are unchanged.
C1_KillCycleOutcome ==
    (probe.kind = "kill" /\ probe.done) =>
        LET s == probe.s
            out == probe.out
            left == AliveIds(s) \ {probe.cycleId}
        IN  /\ AliveIds(out) = left
            /\ Cardinality(left) = 1 =>
                  \E w \in left :
                      /\ out.phase = "gameOver"
                      /\ out.winner = w
                      /\ out.scores[w] = s.scores[w] + 1
                      /\ \A id \in IdSet \ {w} : out.scores[id] = s.scores[id]
            /\ Cardinality(left) = 0 =>
                  /\ out.phase = "gameOver"
                  /\ out.winner = NoWinner
                  /\ out.scores = s.scores
            /\ Cardinality(left) >= 2 =>
                  /\ out.phase = "playing"
                  /\ out.winner = s.winner
                  /\ out.scores = s.scores

\* the human player's death left a sole survivor, who had a score already
C1_SoleSurvivor ==
    /\ probe.kind = "kill" /\ probe.done
    /\ probe.cycleId = "player"
    /\ AliveIds(probe.out) = {"ai-2"}
    /\ probe.s.scores["ai-2"] = 1
    /\ probe.out.scores["ai-2"] = 2
    /\ probe.out.phase = "gameOver"

\* an agent as createInitialCycles makes it, at a spawn inside the arena
FreshCycle(cycle) ==
    /\ cycle.isAlive
    /\ ~cycle.isTurning
    /\ cycle.targetAngle = NO_TARGET
    /\ ~cycle.isJumping
    /\ cycle.trail = << >>
    /\ Abs(cycle.gridPosition.x) < ARENA_HALF
    /\ Abs(cycle.gridPosition.z) < ARENA_HALF
    /\ cycle.angle = DIRECTION_TO_ANGLE(cycle.direction)

\* C14: after restart the phase is countdown with countdown 3, every agent
\* is fresh (alive, not turning, targetAngle -1, not jumping, empty trail,
\* spawn inside the arena, angle of its spawn direction) and the scores are
\* those before the restart; after n decrements, n <= 3, the phase is still
\* countdown with countdown 3 - n, from the fourth on it is playing; the
\* decrements change no agent field.
C14_RestartThenCountdown ==
    (probe.kind = "round" /\ probe.restarted) =>
        /\ probe.out.scores = probe.s.scores
        /\ \A i \in 1..Len(probe.out.cycles) : FreshCycle(probe.out.cycles[i])
        /\ {probe.out.cycles[i].id : i \in 1..Len(probe.out.cycles)} = IdSet
        /\ probe.out.cycles = probe.fresh
        /\ probe.n <= COUNTDOWN_START =>
              /\ probe.out.phase = "countdown"
              /\ probe.out.countdown = COUNTDOWN_START - probe.n
        /\ probe.n > COUNTDOWN_START => probe.out.phase = "playing"

\* a finished round with scores and used agents, restarted and counted
\* down through 3, 2, 1, 0 into playing
C14_CountedDownToPlaying ==
    /\ probe.kind = "round" /\ probe.restarted
    /\ probe.s.phase = "gameOver"
    /\ probe.s.scores["ai-1"] = MaxScore
    /\ probe.s.cycles[1].trail # << >>
    /\ ~probe.s.cycles[4].isAlive
    /\ probe.n = COUNTDOWN_START + 1
    /\ probe.out.phase = "playing"
    /\ probe.out.scores["ai-1"] = MaxScore

\* C20: for every action that does not regenerate spawns, the same action
\* applied to equal states yields equal next states, whatever the
\* wall-clock time of the two applications.
C20_ReducerIsPure ==
    (probe.kind = "pure" /\ probe.done) => probe.out1 = probe.out2

\* C21: in every phase a per-agent action naming an id that no agent has
\* leaves every agent record, the phase, the winner and all scores as they
\* were.
C21_UnknownIdIsNoOp ==
    (/\ probe.kind = "pure"
     /\ probe.done
     /\ "cycleId" \in DOMAIN probe.action
     /\ probe.action.cycleId \notin IdSet)
    => /\ probe.out1.cycles = probe.s.cycles
       /\ probe.out1.phase = probe.s.phase
       /\ probe.out1.winner = probe.s.winner
       /\ probe.out1.scores = probe.s.scores

-----------------------------------------------------------------------------
(* The collision system's functions (specification SpecCollision):        *)
(* checkCollision applied to points of a fixed arena for two asking agents *)
(* and every set of dead opponents; checkWallCollision applied to points   *)
(* around the inset boundary; checkTrailCollision applied to own and       *)
(* foreign trails; raycast applied along the cardinal directions from the  *)
(* cycles' positions and from the points 8 ahead of them; GridSystem's      *)
(* moveForward, moveForwardAngle and calculateMovement applied to given     *)
(* positions, directions, angles, distances and deltas.                     *)

Pt(x, z) == [x |-> x, z |-> z]
Seg(a, b, d) == [start |-> a, end |-> b, direction |-> d]

\* The arena: the player has turned three times, ai-1 once, ai-2 runs along
\* the east wall after one turn, ai-3 has not turned.
ArenaCycles(dead) ==
    LET c == createInitialCycles(SpawnThree)
        place(i, pos, trail) ==
            [c[i] EXCEPT !.gridPosition = pos, !.trail = trail,
                         !.trailActive = trail # << >>,
                         !.isAlive = c[i].id \notin dead]
    IN  << place(1, Pt(-10000, 30000),
                 << Seg(Pt(0, 50000), Pt(0, 40000), "north"),
                    Seg(Pt(0, 40000), Pt(-10000, 40000), "west"),
                    Seg(Pt(-10000, 40000), Pt(-10000, 31000), "north") >>),
           place(2, Pt(20000, 0),
                 << Seg(Pt(20000, -20000), Pt(20000, -1000), "south") >>),
           place(3, Pt(63000, 10000),
                 << Seg(Pt(63400, -10000), Pt(63400, 9000), "south") >>),
           place(4, Pt(-30000, -30000), << >>) >>

ProbePoints ==
    { \* beyond the inset square, on each side, and just on it
      Pt(63601, 30000), Pt(-63601, 0), Pt(0, 63601), Pt(0, -63601), Pt(63600, 30000),
      \* beyond the wall and inside ai-2's trail; beyond the wall and near ai-2
      Pt(63700, 0), Pt(63650, 10000),
      \* inside ai-2's trail, on the inset square
      Pt(63600, 0),
      \* on and just off the edge of ai-1's trail
      Pt(20475, -10000), Pt(20476, -10000),
      \* inside ai-1's trail and near ai-1; near ai-1 only
      Pt(20000, -600), Pt(20000, 200),
      \* the player's first, second and third segment
      Pt(0, 45000), Pt(-5000, 40000), Pt(-10000, 35000),
      \* around ai-3: at 2*radius exactly (twice), just inside it (twice)
      Pt(-29200, -30000), Pt(-29520, -29360), Pt(-29201, -30000), Pt(-29521, -29360),
      \* on the player; in the open
      Pt(-10000, 30000), Pt(10000, 10000) }

\* coordinates around the inset boundary +/-(ARENA_HALF - CYCLE_RADIUS)
WallCoords ==
    {-63700, -63601, -63600, -63599, 0, 50000, 63599, 63600, 63601, 63700}

\* a trail of four segments, east, south, east, south; trails of the
\* tests are its prefixes
TrailPath ==
    << Seg(Pt(0, 0), Pt(5000, 0), "east"),
       Seg(Pt(5000, 0), Pt(5000, 5000), "south"),
       Seg(Pt(5000, 5000), Pt(10000, 5000), "east"),
       Seg(Pt(10000, 5000), Pt(10000, 10000), "south") >>

TrailPoints ==
    { \* the middle of each segment
      Pt(2500, 0), Pt(5000, 2500), Pt(7500, 5000), Pt(10000, 7500),
      \* the corner of the first two segments, of the last two
      Pt(5000, 0), Pt(10000, 5000),
      \* on and just off the long side of the first segment, of the third
      Pt(2500, 475), Pt(2500, 476), Pt(7500, 4525), Pt(7500, 4524),
      \* on and just off the end of the first segment, of the last
      Pt(-475, 0), Pt(-476, 0), Pt(10000, 10475), Pt(10000, 10476),
      \* in the open
      Pt(20000, 20000), Pt(2500, 2500) }

\* The arena of the rays: the player at the centre has turned four times
\* around itself, its committed segments cross the lanes east, south, west
\* and north of it; ai-1 is south of the player with one segment south of
\* itself; ai-2 is near the east wall; ai-3 is on the east inset boundary.
RayCycles(dead) ==
    LET c == createInitialCycles(SpawnThree)
        place(i, pos, trail) ==
            [c[i] EXCEPT !.gridPosition = pos, !.trail = trail,
                         !.trailActive = trail # << >>,
                         !.isAlive = c[i].id \notin dead]
    IN  << place(1, Pt(0, 0),
                 << Seg(Pt(5000, -3000), Pt(5000, 3000), "south"),
                    Seg(Pt(5000, 3000), Pt(-3000, 3000), "west"),
                    Seg(Pt(-3000, 3000), Pt(-3000, -8000), "north"),
                    Seg(Pt(-3000, -8000), Pt(0, -8000), "east") >>),
           place(2, Pt(0, 6200),
                 << Seg(Pt(-2000, 9000), Pt(2000, 9000), "east") >>),
           place(3, Pt(60000, 0), << >>),
           place(4, Pt(63600, -30000), << >>) >>

InitCollision ==
    /\ Parked
    /\ \/ \E dead \in SUBSET {"ai-1", "ai-2", "ai-3"}, cycleId \in {"player", "ai-3"},
             position \in ProbePoints :
              probe = [kind |-> "collision", done |-> FALSE, position |-> position,
                       cycleId |-> cycleId, allCycles |-> ArenaCycles(dead),
                       out |-> NoCollision]
       \/ \E x \in WallCoords, z \in WallCoords :
              probe = [kind |-> "wall", done |-> FALSE, position |-> Pt(x, z),
                       out |-> FALSE]
       \/ \E n \in 0..Len(TrailPath), isSelf \in BOOLEAN, position \in TrailPoints :
              probe = [kind |-> "trail", done |-> FALSE, position |-> position,
                       trail |-> SubSeq(TrailPath, 1, n), isSelf |-> isSelf,
                       out |-> FALSE]
       \* rays from a cycle's position and, as countEscapePaths casts them,
       \* from the point 8 ahead of it in a direction
       \/ \E i \in 1..4, direction \in Directions,
             maxDistance \in {0, 3000, 10000, 15000},
             dead \in SUBSET {"player", "ai-1"}, ahead \in {0, 8000},
             primaryDir \in Directions :
              /\ Ids[i] \notin dead
              /\ ahead = 0 => primaryDir = "north"
              /\ probe = [kind |-> "raycast", done |-> FALSE,
                          position |-> moveForward(RayCycles(dead)[i].gridPosition,
                                                   primaryDir, ahead),
                          direction |-> DIRECTION_VECTORS(direction),
                          maxDistance |-> maxDistance, allCycles |-> RayCycles(dead),
                          selfId |-> Ids[i], out |-> [distance |-> 0, type |-> "null"]]
       \/ \E x \in {0, -20000}, direction \in Directions,
             angle \in {0, HALF_PI, PI, -HALF_PI, HALF_PI \div 2},
             distance \in {0, 600, 5000},
             deltaTime \in {PHYSICS_TIMESTEP, 1500, 3000}, speedMultiplier \in {1, 2} :
              probe = [kind |-> "move", done |-> FALSE, position |-> Pt(x, 7000),
                       direction |-> direction, angle |-> angle, distance |-> distance,
                       deltaTime |-> deltaTime, speedMultiplier |-> speedMultiplier,
                       forward |-> Pt(x, 7000), angled |-> Pt(x, 7000), movement |-> 0]

\* collisionSystem.checkCollision(position, cycleId, allCycles)
CheckCollision ==
    /\ probe.kind = "collision"
    /\ ~probe.done
    /\ probe' = [probe EXCEPT
                    !.done = TRUE,
                    !.out = checkCollision(probe.position, probe.cycleId, probe.allCycles)]
    /\ UNCHANGED <<state, loop, cycleObjects, lastDecisionTime, restartTimer, hist>>

\* collisionSystem.checkWallCollision(position)
CheckWall ==
    /\ probe.kind = "wall"
    /\ ~probe.done
    /\ probe' = [probe EXCEPT !.done = TRUE, !.out = checkWallCollision(probe.position)]
    /\ UNCHANGED <<state, loop, cycleObjects, lastDecisionTime, restartTimer, hist>>

\* collisionSystem.checkTrailCollision(position, trail, isSelf)
CheckTrail ==
    /\ probe.kind = "trail"
    /\ ~probe.done
    /\ probe' = [probe EXCEPT
                    !.done = TRUE,
                    !.out = checkTrailCollision(probe.position, probe.trail, probe.isSelf)]
    /\ UNCHANGED <<state, loop, cycleObjects, lastDecisionTime, restartTimer, hist>>

\* collisionSystem.raycast(position, direction, maxDistance, allCycles, selfId)
Raycast ==
    /\ probe.kind = "raycast"
    /\ ~probe.done
    /\ probe' = [probe EXCEPT
                    !.done = TRUE,
                    !.out = raycast(probe.position, probe.direction, probe.maxDistance,
                                    probe.allCycles, probe.selfId)]
    /\ UNCHANGED <<state, loop, cycleObjects, lastDecisionTime, restartTimer, hist>>

\* gridSystem.moveForward(position, direction, distance),
\* gridSystem.moveForwardAngle(position, angle, distance) and
\* gridSystem.calculateMovement(deltaTime, speedMultiplier)
Move ==
    /\ probe.kind = "move"
    /\ ~probe.done
    /\ probe' = [probe EXCEPT
                    !.done = TRUE,
                    !.forward = moveForward(probe.position, probe.direction, probe.distance),
                    !.angled = moveForwardAngle(probe.position, probe.angle, probe.distance),
                    !.movement = calculateMovement(probe.deltaTime, probe.speedMultiplier)]
    /\ UNCHANGED <<state, loop, cycleObjects, lastDecisionTime, restartTimer, hist>>

NextCollision ==
    \/ CheckCollision
    \/ CheckWall
    \/ CheckTrail
    \/ Raycast
    \/ Move

SpecCollision == InitCollision /\ [][NextCollision]_vars

\* the point lies in the box of a segment: the segment widened by half the
\* trail width plus the radius
InBox(p, seg) ==
    /\ Abs(2 * p.x - (seg.start.x + seg.end.x))
          <= Abs(seg.start.x - seg.end.x) + TRAIL_WIDTH + 2 * CYCLE_RADIUS
    /\ Abs(2 * p.z - (seg.start.z + seg.end.z))
          <= Abs(seg.start.z - seg.end.z) + TRAIL_WIDTH + 2 * CYCLE_RADIUS

OutsideInset(p) ==
    Max(Abs(p.x), Abs(p.z)) > ARENA_HALF - CYCLE_RADIUS

\* the agents whose tested segments hold the point: a living agent's
\* segments, all but the last two of them for the asking agent itself
TrailOwners(p, cycleId, cs) ==
    {i \in 1..Len(cs) :
        /\ cs[i].isAlive
        /\ \E k \in 1..Len(cs[i].trail) :
              /\ cs[i].id = cycleId => k <= Len(cs[i].trail) - 2
              /\ InBox(p, cs[i].trail[k])}

\* the other living agents whose centre is closer than 2*radius
NearAgents(p, cycleId, cs) ==
    {i \in 1..Len(cs) :
        /\ cs[i].id # cycleId
        /\ cs[i].isAlive
        /\ Abs(p.x - cs[i].gridPosition.x) < 2 * CYCLE_RADIUS
        /\ Abs(p.z - cs[i].gridPosition.z) < 2 * CYCLE_RADIUS
        /\ (p.x - cs[i].gridPosition.x) * (p.x - cs[i].gridPosition.x)
              + (p.z - cs[i].gridPosition.z) * (p.z - cs[i].gridPosition.z)
              < 4 * CYCLE_RADIUS * CYCLE_RADIUS}

\* C9: a point inside a committed trail segment of a dead agent is a
\* trail collision for any other agent.
C9_DeadTrailStaysLethal ==
    (probe.kind = "collision" /\ probe.done) =>
        \A i \in 1..Len(probe.allCycles) :
            (/\ ~probe.allCycles[i].isAlive
             /\ probe.allCycles[i].id # probe.cycleId
             /\ ~OutsideInset(probe.position)
             /\ \E k \in 1..Len(probe.allCycles[i].trail) :
                   InBox(probe.position, probe.allCycles[i].trail[k]))
            => probe.out.collided /\ probe.out.type = "trail"

\* C10: checkCollision answers wall (no agent) outside the inset square,
\* whatever else the point touches; else trail with the owner of a tested
\* segment that holds the point, whatever agent is near; else cycle with
\* the id of another living agent closer than 2*radius; else no collision.
C10_FirstMatchOrder ==
    (probe.kind = "collision" /\ probe.done) =>
        LET p == probe.position
            cs == probe.allCycles
            out == probe.out
            owners == TrailOwners(p, probe.cycleId, cs)
            near == NearAgents(p, probe.cycleId, cs)
        IN  IF OutsideInset(p)
            THEN out = [collided |-> TRUE, type |-> "wall", cycleId |-> "null"]
            ELSE IF owners # {}
            THEN /\ out.collided /\ out.type = "trail"
                 /\ \E i \in owners : out.cycleId = cs[i].id
            ELSE IF near # {}
            THEN /\ out.collided /\ out.type = "cycle"
                 /\ \E i \in near : out.cycleId = cs[i].id
            ELSE out = [collided |-> FALSE, type |-> "null", cycleId |-> "null"]

\* a point beyond the wall that is also inside a living agent's trail
C10_WallOverTrail ==
    /\ probe.kind = "collision" /\ probe.done
    /\ OutsideInset(probe.position)
    /\ \E i \in 1..Len(probe.allCycles) :
          /\ probe.allCycles[i].isAlive
          /\ probe.allCycles[i].id # probe.cycleId
          /\ \E k \in 1..Len(probe.allCycles[i].trail) :
                InBox(probe.position, probe.allCycles[i].trail[k])
    /\ probe.out.type = "wall"

\* C11: checkWallCollision is false for a point with both coordinates
\* strictly inside the inset interval, and true for a point with either
\* coordinate at or beyond the inset boundary +/-(ARENA_HALF - CYCLE_RADIUS).
C11_WallAtOrBeyondBoundary ==
    (probe.kind = "wall" /\ probe.done) =>
        (probe.out <=> Max(Abs(probe.position.x), Abs(probe.position.z))
                          >= ARENA_HALF - CYCLE_RADIUS)

\* C12: checkTrailCollision answers true exactly when the point lies in the
\* widened box of a tested segment: every segment of another agent's trail,
\* every segment but the last two of the agent's own trail (none at all
\* when the own trail has at most two segments).
C12_TrailSkipsLastTwoOfOwn ==
    (probe.kind = "trail" /\ probe.done) =>
        LET tested == IF probe.isSelf THEN Len(probe.trail) - 2 ELSE Len(probe.trail)
        IN  /\ probe.out <=> \E k \in 1..tested : InBox(probe.position, probe.trail[k])
            /\ (probe.isSelf /\ Len(probe.trail) <= 2) => ~probe.out

\* the own trail has four segments and the point lies in the third only:
\* no collision, while the same point collides with another agent's trail
C12_OwnRecentSegmentIgnored ==
    /\ probe.kind = "trail" /\ probe.done
    /\ probe.isSelf
    /\ Len(probe.trail) = 4
    /\ InBox(probe.position, probe.trail[3])
    /\ ~InBox(probe.position, probe.trail[1])
    /\ ~InBox(probe.position, probe.trail[2])
    /\ ~probe.out
    /\ checkTrailCollision(probe.position, probe.trail, FALSE)

\* the kinds of obstacle a sample point of a ray touches: a segment of a
\* living agent's trail, all but the last three of them for the asking
\* agent itself, and another living agent closer than 2*radius
SampleKinds(p, selfId, cs) ==
    {kind \in {"trail"} :
        \E i \in 1..Len(cs) :
            /\ cs[i].isAlive
            /\ \E k \in 1..Len(cs[i].trail) :
                  /\ cs[i].id = selfId => k <= Len(cs[i].trail) - 3
                  /\ InBox(p, cs[i].trail[k])}
    \cup {kind \in {"cycle"} : NearAgents(p, selfId, cs) # {}}

\* the distance from the origin to the inset wall along a cardinal direction
WallDistance(position, direction) ==
    ARENA_HALF - CYCLE_RADIUS - (position.x * direction.x + position.z * direction.z)

\* the sample of the ray at distance d
RaySample(d) ==
    Pt(probe.position.x + probe.direction.x * d, probe.position.z + probe.direction.z * d)

\* the multiples of the step, at most maxDistance and below the wall
\* distance, whose sample touches an obstacle
RayHits ==
    {d \in {RAY_STEP * k : k \in 1..(probe.maxDistance \div RAY_STEP)} :
        /\ d < WallDistance(probe.position, probe.direction)
        /\ SampleKinds(RaySample(d), probe.selfId, probe.allCycles) # {}}

C22_MoveForwardAndMovement ==
    (probe.kind = "move" /\ probe.done) =>
        LET p == probe.position
            dist == probe.distance
            expected == CASE probe.direction = "north" -> Pt(p.x, p.z - dist)
                          [] probe.direction = "south" -> Pt(p.x, p.z + dist)
                          [] probe.direction = "east"  -> Pt(p.x + dist, p.z)
                          [] probe.direction = "west"  -> Pt(p.x - dist, p.z)
            cardinal == CASE probe.direction = "north" -> 0
                          [] probe.direction = "south" -> PI
                          [] probe.direction = "east"  -> HALF_PI
                          [] probe.direction = "west"  -> -HALF_PI
        IN  /\ probe.forward = expected
            /\ probe.angle = cardinal => probe.angled = expected
            /\ 3000 * probe.movement
                  = BASE_SPEED * 1000 * probe.speedMultiplier * probe.deltaTime
            /\ (probe.deltaTime = 3000 /\ probe.speedMultiplier = 1)
                  => probe.movement = BASE_SPEED * 1000
            /\ (probe.deltaTime = 1500 /\ probe.speedMultiplier = 2)
                  => probe.movement = BASE_SPEED * 1000

\* 5 east of (0, 7) at angle pi/2, and 500 ms at multiplier 2
C22_EastFiveAtDoubleSpeed ==
    /\ probe.kind = "move"
    /\ probe.done
    /\ probe.position = Pt(0, 7000)
    /\ probe.direction = "east"
    /\ probe.angle = HALF_PI
    /\ probe.distance = 5000
    /\ probe.angled = Pt(5000, 7000)
    /\ probe.deltaTime = 1500
    /\ probe.speedMultiplier = 2
    /\ probe.movement = 12000

\* C30: from every origin, those on or outside the arena's inset boundary
\* included, in every cardinal direction and for every maxDistance >= 0,
\* the distance raycast returns is at least 0 and at most maxDistance.
C30_RayDistanceInRange ==
    (probe.kind = "raycast" /\ probe.done)
        => /\ 0 <= probe.out.distance
           /\ probe.out.distance <= probe.maxDistance

-----------------------------------------------------------------------------
(* AIController.getDecision as a function (specification SpecPolicy):      *)
(* applied to each agent of the arena of the rays, heading in each         *)
(* direction, in the air or not, before and after the end of the jump      *)
(* cooldown, and to an agent heading east into a pocket, for every outcome *)
(* of the random draws that are read (the coin is read only when no turn   *)
(* option exists, and evaluateAllDirections always scores both turns).     *)
(* The pocket is a trail in the shape of a U open to the west: a wall b    *)
(* north of the agent, a wall a ahead of it and a wall c south of it, each *)
(* reaching w west of the agent; it is the trail of ai-1, or the agent's   *)
(* own, which then goes on in a spiral to where the agent is.              *)

InitPolicy ==
    /\ Parked
    /\ \/ \E i \in 1..4, direction \in Directions, dead \in {{}, {"player"}},
             isJumping \in BOOLEAN, now \in {3000, 9000}, currentTime \in {150, 1500},
             emergency \in BOOLEAN, strategic \in BOOLEAN :
               /\ Ids[i] \notin dead
               /\ probe = [kind |-> "decide", done |-> FALSE,
                           cycle |-> [RayCycles(dead)[i] EXCEPT !.direction = direction,
                                                               !.isJumping = isJumping],
                           allCycles |-> [RayCycles(dead) EXCEPT
                                             ![i].direction = direction,
                                             ![i].isJumping = isJumping],
                           currentTime |-> currentTime, lastDecision |-> 0, now |-> now,
                           rnd |-> [emergency |-> emergency, strategic |-> strategic,
                                    coin |-> TRUE],
                           scores |-> << >>,
                           out |-> [turn |-> "none", jump |-> FALSE,
                                    lastDecisionTime |-> 0]]
       \/ \E a \in {6000, 9000, 13000}, b \in {5000, 6000, 9000, 30000},
             c \in {5000, 6000, 9000, 30000}, w \in {3000, 20000},
             own \in BOOLEAN, strategic \in BOOLEAN :
               LET k == createInitialCycles(SpawnThree)
                   pocket == << Seg(Pt(-w, -b), Pt(a, -b), "east"),
                                Seg(Pt(a, -b), Pt(a, c), "south"),
                                Seg(Pt(a, c), Pt(-w, c), "west") >>
                   spiral == << Seg(Pt(-w, c), Pt(-w, -2000), "north"),
                                Seg(Pt(-w, -2000), Pt(-2000, -2000), "east"),
                                Seg(Pt(-2000, -2000), Pt(-2000, 0), "south") >>
                   cycles ==
                       << [k[1] EXCEPT !.gridPosition = Pt(-40000, 40000)],
                          [k[2] EXCEPT !.gridPosition = Pt(-40000, -40000),
                                       !.trailActive = ~own,
                                       !.trail = IF own THEN << >> ELSE pocket],
                          [k[3] EXCEPT !.gridPosition = Pt(0, 0), !.direction = "east",
                                       !.angle = HALF_PI,
                                       !.trailActive = own,
                                       !.trail = IF own THEN pocket \o spiral ELSE << >>],
                          [k[4] EXCEPT !.gridPosition = Pt(40000, 40000)] >>
               IN  /\ b <= c
                   /\ probe = [kind |-> "decide", done |-> FALSE,
                               cycle |-> cycles[3], allCycles |-> cycles,
                               currentTime |-> 1500, lastDecision |-> 0, now |-> 9000,
                               rnd |-> [emergency |-> TRUE, strategic |-> strategic,
                                        coin |-> TRUE],
                               scores |-> << >>,
                               out |-> [turn |-> "none", jump |-> FALSE,
                                        lastDecisionTime |-> 0]]

\* aiController.getDecision(cycle, state.cycles, this.physicsTime); scores
\* keeps what evaluateAllDirections returned in it (forward, left, right)
Decide ==
    /\ probe.kind = "decide"
    /\ ~probe.done
    /\ probe' = [probe EXCEPT
                    !.done = TRUE,
                    !.scores = evaluateAllDirections(probe.cycle, probe.allCycles),
                    !.out = getDecisionScored(probe.cycle, probe.allCycles,
                                              probe.currentTime, probe.lastDecision,
                                              probe.now, probe.rnd)]
    /\ UNCHANGED <<state, loop, cycleObjects, lastDecisionTime, restartTimer, hist>>

NextPolicy == Decide

SpecPolicy == InitPolicy /\ [][NextPolicy]_vars

\* what lies ahead of the asking agent within the look-ahead distance
HazardAhead ==
    raycast(probe.cycle.gridPosition, DIRECTION_VECTORS(probe.cycle.direction),
            LOOK_AHEAD_DISTANCE * 2, probe.allCycles, probe.cycle.id)

\* the turn with the higher total score, left when they are equal
HigherScoringTurn ==
    LET scores == probe.scores
    IN  IF scores[2].totalScore >= scores[3].totalScore THEN "left" ELSE "right"

\* C19: when the forward distance is below MIN_TURN_DISTANCE, getDecision
\* returns a jump only if the agent is not jumping, its jump cooldown has
\* elapsed and the hazard ahead is a trail, not a wall; otherwise it
\* returns a turn, the higher-scoring of left and right, never 'none'.
C19_CriticalJumpOnlyOverTrail ==
    (/\ probe.kind = "decide" /\ probe.done
     /\ probe.currentTime - probe.lastDecision >= DECISION_INTERVAL
     /\ HazardAhead.distance < MIN_TURN_DISTANCE) =>
        /\ probe.out.jump =>
              /\ ~probe.cycle.isJumping
              /\ probe.now - probe.cycle.lastJumpTime >= 6000
              /\ HazardAhead.type = "trail"
        /\ ~probe.out.jump => probe.out.turn = HigherScoringTurn

\* C23: a decision that is made with the forward option's distance at least
\* MIN_TURN_DISTANCE takes the first of these that applies: (2) the
\* top-scoring option is a turn scoring more than 8 above forward: that
\* turn; (3) forward has fewer than 2 escape paths and less than 20 ahead
\* and some turn has more escape paths than forward: such a turn; (4)
\* forward has less than half the look-ahead distance ahead and the
\* top-scoring option is a turn scoring more than 3 above forward: that
\* turn; (5) no turn, with or without a jump. No decision has both a turn
\* and a jump.
C23_NonCriticalOrder ==
    (probe.kind = "decide" /\ probe.done) =>
        LET forward == probe.scores[1]
            turns == {probe.scores[2], probe.scores[3]}
            top == {o \in turns : /\ \A p \in turns : o.totalScore >= p.totalScore
                                  /\ o.totalScore > forward.totalScore}
            roomier == {o \in turns : o.escapePaths > forward.escapePaths}
            turnsTo(options) == /\ probe.out.turn \in {o.turn : o \in options}
                                /\ ~probe.out.jump
        IN  /\ ~(probe.out.turn # "none" /\ probe.out.jump)
            /\ (/\ probe.currentTime - probe.lastDecision >= DECISION_INTERVAL
                /\ forward.forwardDistance >= MIN_TURN_DISTANCE) =>
                  IF \E o \in top : o.totalScore - forward.totalScore > 8000
                  THEN turnsTo(top)
                  ELSE IF /\ forward.escapePaths < 2
                          /\ forward.forwardDistance < 20000
                          /\ roomier # {}
                  THEN turnsTo(roomier)
                  ELSE IF /\ 2 * forward.forwardDistance < LOOK_AHEAD_DISTANCE
                          /\ \E o \in top : o.totalScore - forward.totalScore > 3000
                  THEN turnsTo(top)
                  ELSE probe.out.turn = "none"

\* boxed in: forward is at least MIN_TURN_DISTANCE away and no turn scores
\* more than 8 above it, but forward has one escape path and less than 20
\* ahead, and the agent turns to an option with more escape paths
C23_BoxedInTurnsEarly ==
    /\ probe.kind = "decide"
    /\ probe.done
    /\ probe.scores[1].forwardDistance >= MIN_TURN_DISTANCE
    /\ probe.scores[1].forwardDistance < 20000
    /\ probe.scores[1].escapePaths = 1
    /\ \A k \in {2, 3} :
          probe.scores[k].totalScore - probe.scores[1].totalScore <= 8000
    /\ probe.out.turn # "none"
    /\ \E k \in {2, 3} : /\ probe.scores[k].turn = probe.out.turn
                         /\ probe.scores[k].escapePaths > 1

=============================================================================
